---- MODULE Spec2Model ----
(***************************************************************************)
(* A model of the job-scout agent: the seen-jobs store (src/database.py),  *)
(* the relevance and fit scorers and the ranking orchestrator              *)
(* (src/ranker.py, src/resume_manager.py) and the runs that drive them     *)
(* (src/agent.py run_job_scout, src/bot_listener.py cmd_search).           *)
(*                                                                         *)
(* Conventions                                                             *)
(*  - Optional[str] is a sequence of length 0 (None) or 1 (the string).    *)
(*  - Time is counted in whole hours.  clock is the UTC time; the host's   *)
(*    local wall clock is clock + tz.  SQLite's CURRENT_TIMESTAMP is UTC,  *)
(*    Python's datetime.now() is the naive local time.                     *)
(*  - Scores are kept in half points (score2 = 2 * score): every rule of   *)
(*    the relevance scorer adds whole points and the fit bonus is          *)
(*    overall_score * 0.5, so every score is a multiple of 0.5 and the     *)
(*    float arithmetic of the source is exact.                             *)
(***************************************************************************)
EXTENDS Integers, Sequences, FiniteSets, TLC

VARIABLES
    store,      \* table seen_jobs: a set of rows
    clock,      \* UTC time, in hours
    tz,         \* local time minus UTC, in hours (fixed per host)
    ticks,      \* number of clock advances so far (bounded)
    lastWrite,  \* history: per job id, the row written by the latest upsert of that id
    op,         \* store harness: the last store call
    batch,      \* store harness: the jobs passed to the last filter/mark call
    flag,       \* store harness: the notified argument of the last mark call
    result,     \* store harness: what the last filter_new_jobs call returned
    prev,       \* store harness: how the call before the last one relates to it
    demoted,    \* history: ids whose latest upsert replaced a notified row by an un-notified one
    the_resume,      \* resume_manager.resume: None or the loaded Resume
    the_current_job, \* resume_manager.current_job: None or the CurrentJob
    new_jobs,   \* ranking: the jobs passed to rank_jobs
    max_results,\* ranking: the max_results passed to rank_jobs
    scored_jobs,\* ranking: the ScoredJob of every input job, in input order
    ranked,     \* ranking: what rank_jobs_with_scores returned
    rpc,        \* ranking: "input" before the call, "ranked" after it, "raised"
                \* when the call ended with an exception
    pc,           \* runs: per process, the step its run is at
    run_all_jobs, \* runs: per process, all_jobs of its run
    run_new_jobs, \* runs: per process, new_jobs of its run
    run_top_jobs, \* runs: per process, top_jobs of its run
    runs,         \* runs: how many runs have started
    seenAtFilter, \* history: per process, the ids the store held when its run filtered
    handed,       \* history: per process, the ids its run handed to the notifier
    sentLive,     \* history: per id, how often it was handed to the notifier since
                  \*          cleanup last deleted its row
    applied_rules,\* scoring: what each relevance rule added for the posting scored last
    fit_result,   \* scoring: None or what calculate_fit_score returned last
    sent,         \* runs: per process, the count send_job_batch returned to its run
    raised,       \* runs: the scheduled run ended with an exception
    reported,     \* runs: the scheduled run sent an error message
    notifiedAtScrape, \* history: per process, the number of notified rows when its run began
    pausedAtScrape, \* history: the listener was paused when the scheduled run began
    is_paused,    \* listener: TelegramBotListener.is_paused
    cmd,          \* listener: None or the command handle_command was called with last
    handled,      \* listener: number of handle_command calls so far (bounded)
    reply,        \* listener: the messages handle_command sent before its first await
                  \*           on the job boards, for the last command
    saved_resume,      \* repository: the Resume in resume_data.json, or None
    saved_current_job, \* repository: the CurrentJob in current_job.json, or None
    upload        \* repository: how the last update_resume_from_file call ended

storeVars == <<store, clock, tz, ticks, lastWrite, demoted>>
harnessVars == <<op, batch, flag, result, prev>>
resumeVars == <<the_resume, the_current_job>>
rankVars == <<new_jobs, max_results, scored_jobs, ranked, rpc>>
runVars == <<pc, run_all_jobs, run_new_jobs, run_top_jobs, runs, seenAtFilter, handed, sentLive,
            sent, raised, reported, notifiedAtScrape, pausedAtScrape>>
scoreVars == <<applied_rules, fit_result>>
botVars == <<is_paused, cmd, handled, reply>>
repoVars == <<saved_resume, saved_current_job, upload>>
vars == <<store, clock, tz, ticks, lastWrite, demoted, op, batch, flag, result, prev,
          the_resume, the_current_job, new_jobs, max_results, scored_jobs, ranked, rpc,
          pc, run_all_jobs, run_new_jobs, run_top_jobs, runs, seenAtFilter, handed, sentLive,
          applied_rules, fit_result, sent, raised, reported, notifiedAtScrape, pausedAtScrape,
          is_paused, cmd, handled, reply, saved_resume, saved_current_job, upload>>

(***************************************************************************)
(* Bounds of the model.                                                    *)
(***************************************************************************)
MaxBatch == 2
MaxTicks == 2
MaxRank == 3
MaxResults == 3
MaxScrape == 2
MaxRuns == 3
MaxOverlapRuns == 2
MaxCommands == 2
MaxListenerRuns == 1

(***************************************************************************)
(* Generic helpers.                                                        *)
(***************************************************************************)
Range(s) == {s[i] : i \in 1..Len(s)}

SeqsUpTo(S, n) == UNION {[1..m -> S] : m \in 0..n}

None == <<>>
Some(x) == <<x>>

(***************************************************************************)
(* scrapers.Job                                                            *)
(***************************************************************************)
Job(id, title, company, location, salary, url, source) ==
    [id |-> id, title |-> title, company |-> company, location |-> location,
     salary |-> salary, url |-> url, source |-> source,
     posted_date |-> None, description_snippet |-> None]

\* Postings the store harness draws from.  The first two are one listing
\* (same url, hence same md5-derived id) scraped before and after its title
\* was edited.
J1 == Job("1", "IT Support Specialist", "Google", "Remote", Some("$85,000"), "http://g/1", "linkedin")
J1b == Job("1", "IT Support Specialist II", "Google", "Remote", Some("$85,000"), "http://g/1", "linkedin")
J2 == Job("2", "Sales Representative", "Staffing Co", "NYC", None, "http://s/2", "indeed")
J3 == Job("3", "Customer Experience Lead", "Stripe", "New York, NY (Hybrid)", Some("$95,000"), "http://s/3", "linkedin")
J4 == Job("4", "Help Desk Technician", "Random Corp", "Brooklyn", None, "http://r/4", "indeed")
J5 == Job("5", "AI Integration Support Engineer", "Microsoft", "Remote", Some("$120,000"), "http://m/5", "linkedin")
J6 == Job("6", "Service Desk Technician", "Acme Corp", "Manhattan", None, "http://a/6", "glassdoor")
J7 == Job("7", "Field Technician", "Acme Corp", "Chicago, IL", None, "http://a/7", "indeed")
J8 == [Job("8", "IT Support Specialist II", "Initech", "Jersey City, NJ", Some("Competitive"), "http://i/8", "linkedin")
          EXCEPT !.description_snippet =
              Some("Looking for 3+ years experience in desktop support, Active Directory, Office 365")]
J9 == [Job("9", "Senior Technical Support Analyst", "Robert Half", "Trenton, NJ", Some("$70k"), "http://rh/9", "indeed")
          EXCEPT !.description_snippet = Some("Minimum 8 years of experience; ITIL required")]

\* A scrape with more good postings than one run sends: twelve listings of
\* one kind, and a thirteenth that scores lower.
BulkNumbers == <<"01", "02", "03", "04", "05", "06", "07", "08", "09", "10", "11", "12">>

Bulk(n) ==
    Job("b" \o n, "IT Support Specialist", "Google", "Remote", Some("$85,000"),
        "http://g/b" \o n, "linkedin")

B13 == Job("b13", "Help Desk Technician", "Random Corp", "Brooklyn", None, "http://r/b13", "indeed")

BulkJobs == {Bulk(BulkNumbers[i]) : i \in 1..Len(BulkNumbers)} \cup {B13}

StoreJobs == {J1, J1b, J2}
RankJobs == {J1, J2, J4, J6, J7, J8}
RunJobs == {J1, J1b, J2, J4}
\* The ids whose writes and sends the history variables follow.
JobIds == {j.id : j \in StoreJobs \cup RunJobs \cup {B13}}

\* The scheduled run is agent.run_job_scout in a process of its own, the
\* interactive run is the listener's cmd_search.
Procs == {"scheduled", "interactive"}

\* scrape_all_jobs deduplicates by job id: every list of jobs the program
\* handles holds each id at most once.
UniqueIds(jobs) == \A i, j \in 1..Len(jobs) : jobs[i].id = jobs[j].id => i = j

JobLists(S, n) == {jobs \in SeqsUpTo(S, n) : UniqueIds(jobs)}

(***************************************************************************)
(* database.JobDatabase                                                    *)
(***************************************************************************)
\* One row of seen_jobs as INSERT OR REPLACE writes it: the six bound
\* columns, and first_seen from its DEFAULT CURRENT_TIMESTAMP (UTC).
Row(job, notified, now) ==
    [job_id |-> job.id, title |-> job.title, company |-> job.company,
     url |-> job.url, source |-> job.source, first_seen |-> now,
     notified |-> notified]

\* Mutant: INSERT OR IGNORE, which keeps the row already stored for the id.
InsertOrIgnore(rows, job, notified, now) ==
    IF \E r \in rows : r.job_id = job.id THEN rows
    ELSE rows \cup {[job_id |-> job.id, title |-> job.title, company |-> job.company,
                     url |-> job.url, source |-> job.source, first_seen |-> now,
                     notified |-> notified]}

\* INSERT OR REPLACE on the PRIMARY KEY job_id: the conflicting row is
\* deleted and the new row inserted.
\* Mutant: an existing row only has its notified flag updated.
UpdateNotifiedOnly(rows, job, notified, now) ==
    IF \E r \in rows : r.job_id = job.id
    THEN {r \in rows : r.job_id # job.id}
            \cup {[r EXCEPT !.notified = notified] : r \in {q \in rows : q.job_id = job.id}}
    ELSE rows \cup {Row(job, notified, now)}

InsertOrReplace(rows, job, notified, now) ==
    {r \in rows : r.job_id # job.id} \cup {Row(job, notified, now)}

get_seen_job_ids(rows) == {r.job_id : r \in rows}

\* Mutant: only the rows already notified count as seen.
filter_new_jobs_notified_only(rows, jobs) ==
    LET seen_ids == {r.job_id : r \in {x \in rows : x.notified}}
    IN  SelectSeq(jobs, LAMBDA job : job.id \notin seen_ids)

\* Mutant: nothing is filtered out.
filter_new_jobs_keep_all(rows, jobs) == jobs

filter_new_jobs(rows, jobs) ==
    LET seen_ids == get_seen_job_ids(rows)
    IN  SelectSeq(jobs, LAMBDA job : job.id \notin seen_ids)

\* Mutant: the loop stops one job short of the end of the list.
RECURSIVE mark_jobs_seen_all_but_last(_, _, _, _)
mark_jobs_seen_all_but_last(rows, jobs, notified, now) ==
    IF Len(jobs) <= 1 THEN rows
    ELSE mark_jobs_seen_all_but_last(
             {r \in rows : r.job_id # Head(jobs).id} \cup
                 {[job_id |-> Head(jobs).id, title |-> Head(jobs).title,
                   company |-> Head(jobs).company, url |-> Head(jobs).url,
                   source |-> Head(jobs).source, first_seen |-> now,
                   notified |-> notified]},
             Tail(jobs), notified, now)

RECURSIVE mark_jobs_seen(_, _, _, _)
mark_jobs_seen(rows, jobs, notified, now) ==
    IF jobs = <<>> THEN rows
    ELSE mark_jobs_seen(InsertOrReplace(rows, Head(jobs), notified, now),
                        Tail(jobs), notified, now)

\* get_stats()["total_notified"]: SELECT COUNT(*) ... WHERE notified = 1
total_notified(rows) == Cardinality({r \in rows : r.notified})

\* cutoff = datetime.now() - timedelta(days): the local wall clock.
Cutoff(now, offset, days) == (now + offset) - days * 24

cleanup_old_jobs(rows, now, offset, days) ==
    {r \in rows : ~(r.first_seen < Cutoff(now, offset, days))}

\* upload before any call of update_resume_from_file.
NoUpload ==
    [path_exists |-> FALSE, suffix |-> "", text |-> "", extractor |-> "none",
     outcome |-> "none"]

(***************************************************************************)
(* Python string operations.                                               *)
(***************************************************************************)
CharAt(s, i) == SubSeq(s, i, i)

\* t in s
Contains(s, t) ==
    \E i \in 1..(Len(s) - Len(t) + 1) : SubSeq(s, i, i + Len(t) - 1) = t

\* s starts, at position i, with t
StartsAt(s, i, t) == i + Len(t) - 1 <= Len(s) /\ SubSeq(s, i, i + Len(t) - 1) = t

UpperChars == "ABCDEFGHIJKLMNOPQRSTUVWXYZ"
LowerChars == "abcdefghijklmnopqrstuvwxyz"
DigitChars == "0123456789"

IndexIn(alphabet, c) ==
    IF \E i \in 1..Len(alphabet) : CharAt(alphabet, i) = c
    THEN CHOOSE i \in 1..Len(alphabet) : CharAt(alphabet, i) = c
    ELSE 0

LowerChar(c) == IF IndexIn(UpperChars, c) = 0 THEN c ELSE CharAt(LowerChars, IndexIn(UpperChars, c))
UpperChar(c) == IF IndexIn(LowerChars, c) = 0 THEN c ELSE CharAt(UpperChars, IndexIn(LowerChars, c))

\* str.lower()
RECURSIVE lower(_)
lower(s) == IF Len(s) = 0 THEN "" ELSE LowerChar(CharAt(s, 1)) \o lower(SubSeq(s, 2, Len(s)))

\* str.replace(c, '') for a single character c
RECURSIVE RemoveChar(_, _)
RemoveChar(s, c) ==
    IF Len(s) = 0 THEN ""
    ELSE (IF CharAt(s, 1) = c THEN "" ELSE CharAt(s, 1)) \o RemoveChar(SubSeq(s, 2, Len(s)), c)

IsDigit(s, i) == i >= 1 /\ i <= Len(s) /\ IndexIn(DigitChars, CharAt(s, i)) # 0

\* \s of the re module, for the characters the postings hold
IsSpace(s, i) == i >= 1 /\ i <= Len(s) /\ CharAt(s, i) \in {" ", "\t", "\n", "\r"}

\* The position after the longest run of digits (of white space) from i on.
RECURSIVE DigitsEnd(_, _)
DigitsEnd(s, i) == IF IsDigit(s, i) THEN DigitsEnd(s, i + 1) ELSE i

RECURSIVE SpacesEnd(_, _)
SpacesEnd(s, i) == IF IsSpace(s, i) THEN SpacesEnd(s, i + 1) ELSE i

\* int(s) for a string of decimal digits
RECURSIVE ParseInt(_)
ParseInt(s) ==
    IF Len(s) = 0 THEN 0
    ELSE ParseInt(SubSeq(s, 1, Len(s) - 1)) * 10 + (IndexIn(DigitChars, CharAt(s, Len(s))) - 1)

\* any(term in s for term in terms)
AnyIn(terms, s) == \E i \in 1..Len(terms) : Contains(s, terms[i])

\* Mutant: the last matching entry of the table wins.
LastMatch(table, s) ==
    IF \E i \in 1..Len(table) : Contains(s, table[i][1])
    THEN CHOOSE i \in 1..Len(table) :
            /\ Contains(s, table[i][1])
            /\ \A j \in (i + 1)..Len(table) : ~Contains(s, table[j][1])
    ELSE 0

\* The index of the first entry of an ordered keyword table whose keyword
\* occurs in s (0: none): a for loop that breaks on the first match.
FirstMatch(table, s) ==
    IF \E i \in 1..Len(table) : Contains(s, table[i][1])
    THEN CHOOSE i \in 1..Len(table) :
            /\ Contains(s, table[i][1])
            /\ \A j \in 1..(i - 1) : ~Contains(s, table[j][1])
    ELSE 0

RECURSIVE Concat(_)
Concat(ss) == IF ss = <<>> THEN <<>> ELSE Head(ss) \o Concat(Tail(ss))

RECURSIVE SumPts(_)
SumPts(rs) == IF rs = <<>> THEN 0 ELSE Head(rs).pts + SumPts(Tail(rs))

Min(a, b) == IF a <= b THEN a ELSE b
Max(a, b) == IF a >= b THEN a ELSE b

(***************************************************************************)
(* ranker.calculate_job_score: the relevance rules.  Each rule yields the  *)
(* points it adds to the running score and the reasons it appends.         *)
(***************************************************************************)
Rule(pts, reasons) == [pts |-> pts, reasons |-> reasons]
NoRule == Rule(0, <<>>)

priority_keywords ==
    << <<"it support", 30>>, <<"help desk", 25>>, <<"desktop support", 25>>,
       <<"service desk", 25>>, <<"customer experience", 30>>, <<"cx support", 30>>,
       <<"customer support lead", 35>>, <<"ai integration", 40>>, <<"ai support", 35>>,
       <<"technical support", 20>>, <<"support lead", 30>>, <<"support manager", 30>>,
       <<"support specialist", 20>>, <<"support analyst", 20>> >>

TitleMatchRule(title_lower) ==
    LET i == FirstMatch(priority_keywords, title_lower)
    IN  IF i = 0 THEN NoRule
        ELSE Rule(priority_keywords[i][2],
                  <<"Title match: '" \o priority_keywords[i][1] \o "'">>)

SeniorityRule(title_lower) ==
    IF AnyIn(<<"lead", "senior", "manager", "ii", "iii">>, title_lower)
    THEN Rule(10, <<"Leadership/Senior role">>)
    ELSE IF AnyIn(<<"junior", "entry", "associate", "i ">>, title_lower)
    THEN Rule(5, <<"Entry-level friendly">>)
    ELSE NoRule

\* re.search(r'\$?([\d,]+)', salary.replace(',', '')): the first run of
\* digits of the salary text without its commas, or None.
SalaryMatch(salary) ==
    LET text == RemoveChar(salary, ",")
        starts == {i \in 1..Len(text) : IsDigit(text, i)}
    IN  IF starts = {} THEN None
        ELSE LET i == CHOOSE k \in starts : \A m \in starts : k <= m
             IN  Some(SubSeq(text, i, DigitsEnd(text, i) - 1))

SalaryRule(salary) ==
    IF salary = None \/ salary = Some("") THEN NoRule
    ELSE LET salary_match == SalaryMatch(salary[1])
             salary_num == IF salary_match = None THEN 0 ELSE ParseInt(salary_match[1])
         IN  IF salary_match # None /\ salary_num >= 90000
             THEN Rule(15 + 20, <<"Salary listed", "High salary ($90k+)">>)
             ELSE IF salary_match # None /\ salary_num >= 70000
             THEN Rule(15 + 10, <<"Salary listed", "Good salary ($70k+)">>)
             ELSE Rule(15, <<"Salary listed">>)

\* Mutant: the hybrid bonus is tested independently of the remote bonus.
RemoteRuleBoth(location_lower) ==
    LET remote == IF Contains(location_lower, "remote")
                  THEN Rule(20, <<"Remote - work from home">>) ELSE NoRule
        hybrid == IF Contains(location_lower, "hybrid")
                  THEN Rule(15, <<"Hybrid option">>) ELSE NoRule
    IN  Rule(remote.pts + hybrid.pts, remote.reasons \o hybrid.reasons)

RemoteRule(location_lower) ==
    IF Contains(location_lower, "remote") THEN Rule(20, <<"Remote - work from home">>)
    ELSE IF Contains(location_lower, "hybrid") THEN Rule(15, <<"Hybrid option">>)
    ELSE NoRule

close_nj == <<"bayonne", "jersey city", "hoboken", "newark", "secaucus", "kearny",
              "harrison", "union city", "west new york", "north bergen">>
medium_nj == <<"elizabeth", "fort lee", "hackensack", "englewood", "paramus",
               "clifton", "passaic", "paterson", "east orange", "orange",
               "irvington", "bloomfield", "montclair", "linden", "rahway",
               "cranford", "woodbridge", "edison">>
excluded_nj == <<"morristown", "parsippany", "wayne", "new brunswick", "perth amboy",
                 "trenton", "princeton", "somerset", "toms river">>
valid_nyc == <<"manhattan", "brooklyn">>
excluded_nyc == <<"queens", "bronx", "staten island">>

\* str.title() of the first valid_nyc entry found in the location
NycBorough(location_lower) ==
    IF Contains(location_lower, "manhattan") THEN "Manhattan" ELSE "Brooklyn"

\* Mutant: the close towns are tested before the towns that are too far.
GeoOutcomeCloseFirst(location_lower) ==
    IF AnyIn(close_nj, location_lower) THEN "close_nj"
    ELSE IF AnyIn(excluded_nj, location_lower) THEN "excluded_nj"
    ELSE IF AnyIn(medium_nj, location_lower) THEN "medium_nj"
    ELSE IF AnyIn(valid_nyc, location_lower) THEN "valid_nyc"
    ELSE IF AnyIn(excluded_nyc, location_lower) THEN "excluded_nyc"
    ELSE IF Contains(location_lower, "new york") \/ Contains(location_lower, "nyc")
    THEN "nyc"
    ELSE IF Contains(location_lower, "nj") \/ Contains(location_lower, "new jersey")
    THEN "nj"
    ELSE "none"

\* The geography branch: the first outcome that matches sets
\* location_matched; "none" is location_matched = False.
GeoOutcome(location_lower) ==
    IF AnyIn(excluded_nj, location_lower) THEN "excluded_nj"
    ELSE IF AnyIn(close_nj, location_lower) THEN "close_nj"
    ELSE IF AnyIn(medium_nj, location_lower) THEN "medium_nj"
    ELSE IF AnyIn(valid_nyc, location_lower) THEN "valid_nyc"
    ELSE IF AnyIn(excluded_nyc, location_lower) THEN "excluded_nyc"
    ELSE IF Contains(location_lower, "new york") \/ Contains(location_lower, "nyc")
    THEN "nyc"
    ELSE IF Contains(location_lower, "nj") \/ Contains(location_lower, "new jersey")
    THEN "nj"
    ELSE "none"

GeoRule(location_lower) ==
    LET outcome == GeoOutcome(location_lower)
    IN  CASE outcome = "excluded_nj" -> Rule(-20, <<"NJ too far (>30 mi) - excluded">>)
          [] outcome = "close_nj" -> Rule(25, <<"NJ close (5-15 mi)">>)
          [] outcome = "medium_nj" -> Rule(18, <<"NJ medium (15-30 mi)">>)
          [] outcome = "valid_nyc" ->
                Rule(20, <<"NYC (" \o NycBorough(location_lower) \o ")">>)
          [] outcome = "excluded_nyc" ->
                Rule(-15, <<"NYC excluded borough (Queens/Bronx/SI)">>)
          [] outcome = "nyc" -> Rule(10, <<"NYC (unspecified)">>)
          [] outcome = "nj" -> Rule(12, <<"NJ area">>)
          [] OTHER ->
                IF ~Contains(location_lower, "remote") /\ ~Contains(location_lower, "hybrid")
                THEN Rule(-10, <<"Location outside target area">>)
                ELSE NoRule

good_companies ==
    <<"google", "microsoft", "amazon", "meta", "apple", "netflix",
      "salesforce", "adobe", "ibm", "oracle", "cisco", "dell",
      "hp", "intel", "nvidia", "zoom", "slack", "dropbox",
      "stripe", "square", "shopify", "twilio", "datadog">>

GoodCompanyRule(company_lower) ==
    IF AnyIn(good_companies, company_lower) THEN Rule(15, <<"Top tech company">>)
    ELSE NoRule

staffing_keywords == <<"staffing", "recruiting", "talent", "consultants", "solutions">>

StaffingRule(company_lower) ==
    IF AnyIn(staffing_keywords, company_lower)
    THEN Rule(-10, <<"Staffing agency (lower priority)">>)
    ELSE NoRule

growth_roles ==
    << <<"lead", 15, "Leadership path">>, <<"manager", 12, "Management track">>,
       <<"analyst", 10, "Analytical skills">>, <<"engineer", 12, "Engineering path">>,
       <<"specialist", 8, "Specialist role">>, <<"administrator", 10, "Admin experience">>,
       <<"coordinator", 5, "Coordination skills">> >>

GrowthRoleRule(title_lower) ==
    LET i == FirstMatch(growth_roles, title_lower)
    IN  IF i = 0 THEN NoRule
        ELSE Rule(growth_roles[i][2], <<"Growth: " \o growth_roles[i][3]>>)

growth_companies ==
    <<"google", "microsoft", "amazon", "meta", "apple",
      "ibm", "accenture", "deloitte", "pwc", "kpmg",
      "jpmorgan", "goldman", "citi", "bank of america",
      "verizon", "at&t", "comcast">>

GrowthCompanyRule(company_lower) ==
    IF AnyIn(growth_companies, company_lower) THEN Rule(10, <<"Strong IT career path">>)
    ELSE NoRule

staffing_agencies ==
    <<"staffing", "recruiting", "talent", "consultants",
      "solutions", "manpower", "randstad", "robert half",
      "teksystems", "insight global", "kforce">>

DirectEmployerRule(company_lower) ==
    IF ~AnyIn(staffing_agencies, company_lower) THEN Rule(10, <<"Direct employer">>)
    ELSE Rule(-5, <<"Staffing agency">>)

EntryFriendlyRule(title_lower) ==
    IF AnyIn(<<"entry", "junior", "associate", "i ", " i,">>, title_lower)
    THEN Rule(8, <<"Entry-friendly">>)
    ELSE NoRule

avoid_keywords == <<"intern", "director", "vp", "vice president", "chief", "cto", "cio">>

AvoidRule(title_lower) ==
    IF AnyIn(avoid_keywords, title_lower) THEN Rule(-20, <<"Role level mismatch">>)
    ELSE NoRule

exclude_roles ==
    <<"sales", "marketing", "account executive", "account manager",
      "customer success manager", "csm", "success manager",
      "business development", "recruiter", "hr ">>

\* Mutant: sales and other non-IT roles are not penalised.
ExcludeRoleRuleOff(title_lower) == NoRule

ExcludeRoleRule(title_lower) ==
    IF AnyIn(exclude_roles, title_lower) THEN Rule(-50, <<"Not an IT/Support role">>)
    ELSE NoRule

\* The penalty is subtracted without a reason.
OverqualifiedRule(title_lower) ==
    IF AnyIn(<<"senior", "sr.", "principal", "staff">>, title_lower) THEN Rule(-5, <<>>)
    ELSE NoRule

\* The rules in the order calculate_job_score applies them.
RelevanceRules(job) ==
    LET title_lower == lower(job.title)
        company_lower == lower(job.company)
        location_lower == lower(job.location)
    IN  << TitleMatchRule(title_lower), SeniorityRule(title_lower),
           SalaryRule(job.salary), RemoteRule(location_lower),
           GeoRule(location_lower), GoodCompanyRule(company_lower),
           StaffingRule(company_lower), GrowthRoleRule(title_lower),
           GrowthCompanyRule(company_lower), DirectEmployerRule(company_lower),
           EntryFriendlyRule(title_lower), AvoidRule(title_lower),
           ExcludeRoleRule(title_lower), OverqualifiedRule(title_lower) >>

\* score and reasons before the resume-based part, in whole points
ReasonsOf(rules) == Concat([i \in 1..Len(rules) |-> rules[i].reasons])
RelevanceScore(job) == SumPts(RelevanceRules(job))
RelevanceReasons(job) == ReasonsOf(RelevanceRules(job))

(***************************************************************************)
(* resume_manager.ResumeManager.calculate_fit_score                        *)
(***************************************************************************)
Resume(skills, job_titles, experience_years, certifications) ==
    [skills |-> skills, job_titles |-> job_titles,
     experience_years |-> experience_years, certifications |-> certifications]

CurrentJob(title) == [title |-> title]

JobFitScore(overall_score, skill_match, title_match, experience_match, reasons) ==
    [overall_score |-> overall_score, skill_match |-> skill_match,
     title_match |-> title_match, experience_match |-> experience_match,
     reasons |-> reasons]

get_fit_label(overall_score) ==
    IF overall_score >= 90 THEN "Excellent Match"
    ELSE IF overall_score >= 75 THEN "Strong Match"
    ELSE IF overall_score >= 60 THEN "Good Match"
    ELSE IF overall_score >= 40 THEN "Fair Match"
    ELSE "Low Match"

\* ', '.join(ss)
RECURSIVE JoinComma(_)
JoinComma(ss) ==
    IF ss = <<>> THEN ""
    ELSE IF Len(ss) = 1 THEN ss[1]
    ELSE ss[1] \o ", " \o JoinComma(Tail(ss))

Prefix(ss, n) == SubSeq(ss, 1, Min(n, Len(ss)))

\* int((matches / total) * 100) in double arithmetic: the floor of the
\* exact quotient, except that 29 / 50 * 100 is 56.99999999999999.
PercentOf(matches, total) ==
    IF matches = 29 /\ total = 50 THEN 56 ELSE (matches * 100) \div total

\* r"(\d+)\+?\s*years?\s+(?:of\s+)?experience" matched at position i:
\* the digits of group 1, or None.  d is the position after the digits,
\* y the start of "year", e the position after "years?", w the position
\* after the white space that follows.
OptionalOfEnd(text, w) ==
    IF StartsAt(text, w, "of") /\ IsSpace(text, w + 2) THEN SpacesEnd(text, w + 2) ELSE w

ExperienceAfterYears(text, i, d, y, e, w) ==
    IF /\ StartsAt(text, y, "year")
       /\ IsSpace(text, e)
       /\ (StartsAt(text, OptionalOfEnd(text, w), "experience")
              \/ StartsAt(text, w, "experience"))
    THEN Some(SubSeq(text, i, d - 1))
    ELSE None

YearsAfterDigits(text, i, d, y) ==
    ExperienceAfterYears(text, i, d, y,
        IF StartsAt(text, y, "years") THEN y + 5 ELSE y + 4,
        SpacesEnd(text, IF StartsAt(text, y, "years") THEN y + 5 ELSE y + 4))

YearsExperienceAt(text, i) ==
    IF ~IsDigit(text, i) THEN None
    ELSE YearsAfterDigits(text, i, DigitsEnd(text, i),
            SpacesEnd(text, IF StartsAt(text, DigitsEnd(text, i), "+")
                            THEN DigitsEnd(text, i) + 1 ELSE DigitsEnd(text, i)))

\* word \s+ (\d+) \s+ year matched at position i, for the leading words
\* "minimum" and "at\s+least".
DigitsThenYear(text, n, d) ==
    IF IsDigit(text, n) /\ IsSpace(text, d) /\ StartsAt(text, SpacesEnd(text, d), "year")
    THEN Some(SubSeq(text, n, d - 1))
    ELSE None

AfterWordYearsAt(text, j) ==
    IF IsSpace(text, j)
    THEN DigitsThenYear(text, SpacesEnd(text, j), DigitsEnd(text, SpacesEnd(text, j)))
    ELSE None

MinimumYearsAt(text, i) ==
    IF StartsAt(text, i, "minimum") THEN AfterWordYearsAt(text, i + 7) ELSE None

AtLeastYearsAt(text, i) ==
    IF StartsAt(text, i, "at") /\ IsSpace(text, i + 2)
          /\ StartsAt(text, SpacesEnd(text, i + 2), "least")
    THEN AfterWordYearsAt(text, SpacesEnd(text, i + 2) + 5)
    ELSE None

\* re.search: the match at the leftmost position that has one.
SearchYears(MatchAt(_, _), text) ==
    LET hits == {i \in 1..Len(text) : MatchAt(text, i) # None}
    IN  IF hits = {} THEN None
        ELSE MatchAt(text, CHOOSE i \in hits : \A k \in hits : i <= k)

MatchYears(m) == IF m = None THEN 0 ELSE ParseInt(m[1])

required_years(combined_text) ==
    Max(Max(MatchYears(SearchYears(YearsExperienceAt, combined_text)),
            MatchYears(SearchYears(MinimumYearsAt, combined_text))),
        MatchYears(SearchYears(AtLeastYearsAt, combined_text)))

\* r"experience[:\s]+(\d+)\+?\s*years?" matched at position i: n is the
\* position after the run of colons and white space, d the position after
\* the digits, w the position after the optional "+" and the white space.
RECURSIVE SeparatorsEnd(_, _)
SeparatorsEnd(s, i) ==
    IF IsSpace(s, i) \/ StartsAt(s, i, ":") THEN SeparatorsEnd(s, i + 1) ELSE i

PlusSpacesEnd(text, d) ==
    SpacesEnd(text, IF StartsAt(text, d, "+") THEN d + 1 ELSE d)

YearsAfterExperience(text, start, n, d) ==
    IF n > start /\ IsDigit(text, n) /\ StartsAt(text, PlusSpacesEnd(text, d), "year")
    THEN Some(SubSeq(text, n, d - 1))
    ELSE None

ExperienceYearsAt(text, i) ==
    IF StartsAt(text, i, "experience")
    THEN YearsAfterExperience(text, i + 10, SeparatorsEnd(text, i + 10),
                              DigitsEnd(text, SeparatorsEnd(text, i + 10)))
    ELSE None

\* r"(\d+)\+?\s*years?\s+in\s+(?:it|tech|support)" matched at position i:
\* e is the position after "years?", f the position after "in" and the
\* white space on both sides of it.
FieldAfterIn(text, f) ==
    StartsAt(text, f, "it") \/ StartsAt(text, f, "tech") \/ StartsAt(text, f, "support")

InAfterYears(text, i, d, e, w) ==
    IF IsSpace(text, e) /\ StartsAt(text, w, "in") /\ IsSpace(text, w + 2)
          /\ FieldAfterIn(text, SpacesEnd(text, w + 2))
    THEN Some(SubSeq(text, i, d - 1))
    ELSE None

YearsInAfterDigits(text, i, d, y) ==
    IF StartsAt(text, y, "year")
    THEN InAfterYears(text, i, d,
            IF StartsAt(text, y, "years") THEN y + 5 ELSE y + 4,
            SpacesEnd(text, IF StartsAt(text, y, "years") THEN y + 5 ELSE y + 4))
    ELSE None

YearsInFieldAt(text, i) ==
    IF ~IsDigit(text, i) THEN None
    ELSE YearsInAfterDigits(text, i, DigitsEnd(text, i),
                            PlusSpacesEnd(text, DigitsEnd(text, i)))

\* _parse_resume, "Estimate experience years": re.search of each of the
\* three year_patterns in text_lower, and the maximum of the first groups.
experience_years(text_lower) ==
    Max(Max(MatchYears(SearchYears(YearsExperienceAt, text_lower)),
            MatchYears(SearchYears(ExperienceYearsAt, text_lower))),
        MatchYears(SearchYears(YearsInFieldAt, text_lower)))

SkillsOf(resume, matched_skills) ==
    [score |-> IF resume.skills # <<>>
               THEN Min(100, PercentOf(Len(matched_skills), Len(resume.skills)) + 20)
               ELSE 50,
     reasons |-> IF matched_skills # <<>>
                 THEN <<"Skills: " \o JoinComma(Prefix(matched_skills, 3))>>
                 ELSE <<>>]

FitSkills(resume, combined_text) ==
    SkillsOf(resume, SelectSeq(resume.skills, LAMBDA skill : Contains(combined_text, skill)))

progression_keywords == <<"lead", "senior", "manager", "ii", "iii", "principal">>
common_terms == <<"support", "help desk", "it ", "technical", "customer", "service">>
title_keywords == <<"it support", "help desk", "technical support", "desktop support",
                    "service desk", "customer experience", "ai support", "support lead">>

\* The resume titles contained in the job title: the first one is the one
\* the loop breaks on.
ResumeTitleHits(resume, job_title_lower) ==
    {i \in 1..Len(resume.job_titles) : Contains(job_title_lower, lower(resume.job_titles[i]))}

SameField(current_title_lower, job_title_lower) ==
    \E k \in 1..Len(common_terms) :
        /\ Contains(current_title_lower, common_terms[k])
        /\ Contains(job_title_lower, common_terms[k])

\* Mutant: a title keyword sets the title match to 75 instead of raising it.
TitleOfKeywordSets(resume, hits, same_field, is_progression, has_keyword) ==
    LET t1 == IF hits # {} THEN 90 ELSE 40
        t2 == IF same_field THEN (IF is_progression THEN 95 ELSE Max(t1, 70)) ELSE t1
    IN  [score |-> IF has_keyword THEN 75 ELSE t2, reasons |-> <<>>]

TitleOf(resume, hits, same_field, is_progression, has_keyword) ==
    LET t1 == IF hits # {} THEN 90 ELSE 40
        t2 == IF same_field THEN (IF is_progression THEN 95 ELSE Max(t1, 70)) ELSE t1
    IN  [score |-> IF has_keyword THEN Max(t2, 75) ELSE t2,
         reasons |->
            (IF hits # {}
             THEN <<"Title matches experience: "
                       \o resume.job_titles[CHOOSE i \in hits : \A k \in hits : i <= k]>>
             ELSE <<>>)
            \o (IF same_field /\ is_progression
                THEN <<"Career progression opportunity">> ELSE <<>>)]

FitTitle(resume, current_job, job_title_lower) ==
    TitleOf(resume,
            ResumeTitleHits(resume, job_title_lower),
            /\ current_job # None
            /\ current_job[1].title # ""
            /\ SameField(lower(current_job[1].title), job_title_lower),
            AnyIn(progression_keywords, job_title_lower),
            AnyIn(title_keywords, job_title_lower))

\* Mutant: the certification boost is added without the cap at 100.
ExperienceOfUncapped(years, required, cert) ==
    LET e1 == IF required > 0
              THEN (IF years >= required THEN 100
                    ELSE IF years >= required - 1 THEN 75
                    ELSE Max(30, 60 - (required - years) * 10))
              ELSE (IF years >= 2 THEN 85 ELSE 60)
    IN  [score |-> IF cert THEN e1 + 15 ELSE e1,
         reasons |-> IF cert THEN <<"Certification match">> ELSE <<>>]

ExperienceOf(years, required, cert) ==
    LET e1 == IF required > 0
              THEN (IF years >= required THEN 100
                    ELSE IF years >= required - 1 THEN 75
                    ELSE Max(30, 60 - (required - years) * 10))
              ELSE (IF years >= 2 THEN 85 ELSE 60)
    IN  [score |-> IF cert THEN Min(100, e1 + 15) ELSE e1,
         reasons |->
            (IF required > 0 /\ years >= required
             THEN <<"Experience: " \o ToString(years) \o "+ yrs (need "
                       \o ToString(required) \o ")">>
             ELSE IF required > 0 /\ years >= required - 1
             THEN <<"Experience close: " \o ToString(years) \o " yrs (need "
                       \o ToString(required) \o ")">>
             ELSE <<>>)
            \o (IF cert THEN <<"Certification match">> ELSE <<>>)]

FitExperience(resume, combined_text) ==
    ExperienceOf(resume.experience_years,
                 required_years(combined_text),
                 \E i \in 1..Len(resume.certifications) :
                     Contains(combined_text, lower(resume.certifications[i])))

\* Mutant: the weighted sum is rounded to the nearest integer.
WeightedOverallRounded(skill_match, title_match, experience_match) ==
    (skill_match * 35 + title_match * 40 + experience_match * 25 + 50) \div 100

\* int(skill * 0.35 + title * 0.40 + experience * 0.25): the double sum
\* truncates to the floor of the exact value for every title_match the
\* code produces (40, 50, 70, 75, 90, 95) and sub-scores in 0..100.
WeightedOverall(skill_match, title_match, experience_match) ==
    (skill_match * 35 + title_match * 40 + experience_match * 25) \div 100

FitCombine(skill, title, experience) ==
    LET weighted == WeightedOverall(skill.score, title.score, experience.score)
        bonus == skill.score >= 80 /\ title.score >= 80
    IN  JobFitScore(IF bonus THEN Min(100, weighted + 10) ELSE weighted,
                    skill.score, title.score, experience.score,
                    skill.reasons \o title.reasons \o experience.reasons
                        \o (IF bonus THEN <<"Strong overall fit">> ELSE <<>>))

FitOfText(resume, current_job, job_title_lower, combined_text) ==
    FitCombine(FitSkills(resume, combined_text),
               FitTitle(resume, current_job, job_title_lower),
               FitExperience(resume, combined_text))

FitOfLower(resume, current_job, job_title_lower, job_desc_lower) ==
    FitOfText(resume, current_job, job_title_lower, job_title_lower \o " " \o job_desc_lower)

calculate_fit_score(resume, current_job, job_title, job_description) ==
    IF resume = None
    THEN JobFitScore(50, 50, 50, 50, <<"No resume uploaded - using default scoring">>)
    ELSE FitOfLower(resume[1], current_job, lower(job_title), lower(job_description))

has_resume(resume) == resume # None

\* The resume _parse_resume extracts from the sample text of the module's
\* self-test (the lists in alphabetical order), and a resume file that
\* yielded no skills, titles, years or certifications.
SampleResume ==
    Resume(<<"active directory", "ai", "azure", "customer service", "desktop support",
             "dhcp", "dns", "documentation", "hardware troubleshooting", "itil", "jira",
             "linux", "macos", "network troubleshooting", "office 365", "remote support",
             "servicenow", "tcp/ip", "training", "troubleshooting", "vpn", "windows">>,
           <<"Desktop Support And", "Help Desk Operations", "It Support Specialist",
             "Support Specialist">>,
           5,
           <<"COMPTIA A+", "COMPTIA NETWORK+", "ITIL", "ITIL V4">>)

BareResume == Resume(<<>>, <<>>, 0, <<>>)

Resumes == {None, Some(SampleResume), Some(BareResume)}

CurrentJobs == {None, Some(CurrentJob("IT Support Specialist"))}

(***************************************************************************)
(* ranker.calculate_job_score and ranker.rank_jobs                         *)
(***************************************************************************)
\* score2 is the score in half points (2 * score).
ScoredJob(job, score2, reasons, fit_score) ==
    [job |-> job, score2 |-> score2, reasons |-> reasons, fit_score |-> fit_score]

FitReasons(fit) ==
    (IF fit.overall_score >= 75
     THEN <<"Resume fit: " \o get_fit_label(fit.overall_score) \o " ("
               \o ToString(fit.overall_score) \o "%)">>
     ELSE IF fit.overall_score >= 50
     THEN <<"Resume fit: " \o ToString(fit.overall_score) \o "%">>
     ELSE <<>>)
    \o Prefix(fit.reasons, 2)

\* The resume-based part: None without a resume.
FitOf(job, resume, current_job) ==
    IF has_resume(resume)
    THEN Some(calculate_fit_score(resume, current_job, job.title,
                                  IF job.description_snippet = None THEN ""
                                  ELSE job.description_snippet[1]))
    ELSE None

\* Mutant: the whole overall fit is added, not half of it.
ScoreWithFitInFull(job, rules, fit) ==
    IF fit # None
    THEN ScoredJob(job, 2 * SumPts(rules) + 2 * fit[1].overall_score,
                   ReasonsOf(rules) \o FitReasons(fit[1]), fit)
    ELSE ScoredJob(job, 2 * SumPts(rules), ReasonsOf(rules), None)

\* score += fit_score.overall_score * 0.5
ScoreWithFit(job, rules, fit) ==
    IF fit # None
    THEN ScoredJob(job, 2 * SumPts(rules) + fit[1].overall_score,
                   ReasonsOf(rules) \o FitReasons(fit[1]), fit)
    ELSE ScoredJob(job, 2 * SumPts(rules), ReasonsOf(rules), None)

calculate_job_score(job, resume, current_job) ==
    ScoreWithFit(job, RelevanceRules(job), FitOf(job, resume, current_job))

\* list.sort(key=score, reverse=True) is stable: an element goes after
\* every element already placed whose score is at least its own.
InsertByScoreDesc(sorted, sj) ==
    LET n == Cardinality({i \in 1..Len(sorted) : sorted[i].score2 >= sj.score2})
    IN  SubSeq(sorted, 1, n) \o <<sj>> \o SubSeq(sorted, n + 1, Len(sorted))

\* Mutant: sorted ascending and then reversed, which reverses the ties.
RECURSIVE SortByScoreReversed(_)
SortByScoreReversed(scored) ==
    IF scored = <<>> THEN <<>>
    ELSE LET rest == SortByScoreReversed(SubSeq(scored, 1, Len(scored) - 1))
             sj == scored[Len(scored)]
             n == Cardinality({i \in 1..Len(rest) : rest[i].score2 > sj.score2})
         IN  SubSeq(rest, 1, n) \o <<sj>> \o SubSeq(rest, n + 1, Len(rest))

RECURSIVE SortByScoreDesc(_)
SortByScoreDesc(scored) ==
    IF scored = <<>> THEN <<>>
    ELSE InsertByScoreDesc(SortByScoreDesc(SubSeq(scored, 1, Len(scored) - 1)),
                           scored[Len(scored)])

\* Mutant: scores of zero are kept.
GoodJobsOrZero(sorted) == SelectSeq(sorted, LAMBDA sj : sj.score2 >= 0)

\* [sj for sj in scored_jobs if sj.score > 0]
GoodJobs(sorted) == SelectSeq(sorted, LAMBDA sj : sj.score2 > 0)

\* Mutant: one job more than max_results.
TopJobsOneMore(good_jobs, k) ==
    SubSeq(good_jobs, 1, Min(Len(good_jobs), k + 1))

\* good_jobs[:max_results], a Python slice: a negative bound counts from
\* the end.
TopJobs(good_jobs, k) ==
    IF k >= 0 THEN SubSeq(good_jobs, 1, Min(Len(good_jobs), k))
    ELSE SubSeq(good_jobs, 1, Max(0, Len(good_jobs) + k))

\* calculate_job_score is a pure function of the job and the loaded resume:
\* its values on the catalogue are computed once and looked up.
ScoreTable ==
    [j \in RankJobs \cup RunJobs \cup BulkJobs, res \in Resumes, cur \in CurrentJobs |->
        calculate_job_score(j, res, cur)]

\* [calculate_job_score(job) for job in jobs]
ScoreAll(js, res, cur) == [i \in 1..Len(js) |-> ScoreTable[js[i], res, cur]]

rank_jobs_with_scores(js, k, res, cur) ==
    IF js = <<>> THEN <<>>
    ELSE TopJobs(GoodJobs(SortByScoreDesc(ScoreAll(js, res, cur))), k)

rank_jobs(js, k, res, cur) ==
    LET top_jobs == rank_jobs_with_scores(js, k, res, cur)
    IN  [i \in 1..Len(top_jobs) |-> top_jobs[i].job]

get_daily_job_limit == 12

(***************************************************************************)
(* The environment of the store: the host's UTC offset and the passing of  *)
(* time between calls.                                                     *)
(***************************************************************************)
RetentionDays == 30

TzOffsets == {-5, 0, 9}

\* Gaps between calls: two days, 29 days, 30 days and two hours.
TickHours == {48, 29 * 24, 30 * 24 + 2}

\* The gap the call-sequence harness uses: a month and a day.
LongTick == {31 * 24}

RowsOf(rows, id) == {r \in rows : r.job_id = id}

\* History of an upsert of jobs: per id, the row the last job of that id
\* in the list produces.
LastIndexOf(jobs, id) ==
    CHOOSE i \in 1..Len(jobs) :
        /\ jobs[i].id = id
        /\ \A j \in (i + 1)..Len(jobs) : jobs[j].id # id

WriteHistory(hist, jobs, notified, now) ==
    [id \in DOMAIN hist |->
        IF \E i \in 1..Len(jobs) : jobs[i].id = id
        THEN {Row(jobs[LastIndexOf(jobs, id)], notified, now)}
        ELSE hist[id]]

DemoteHistory(dem, rows, jobs, notified) ==
    LET ids == {jobs[i].id : i \in 1..Len(jobs)}
    IN  (dem \ ids) \cup
        {id \in ids : ~notified /\ \E r \in RowsOf(rows, id) : r.notified}

StoreInit ==
    /\ store = {}
    /\ clock = 0
    /\ tz \in TzOffsets
    /\ ticks = 0
    /\ lastWrite = [id \in JobIds |-> {}]
    /\ demoted = {}
    /\ op = "init"
    /\ batch = <<>>
    /\ flag = FALSE
    /\ result = <<>>
    /\ prev = "none"
    /\ the_resume = None
    /\ the_current_job = None
    /\ new_jobs = <<>>
    /\ max_results = 0
    /\ scored_jobs = <<>>
    /\ ranked = <<>>
    /\ rpc = "idle"
    /\ pc = [p \in Procs |-> "idle"]
    /\ run_all_jobs = [p \in Procs |-> <<>>]
    /\ run_new_jobs = [p \in Procs |-> <<>>]
    /\ run_top_jobs = [p \in Procs |-> <<>>]
    /\ runs = 0
    /\ seenAtFilter = [p \in Procs |-> {}]
    /\ handed = [p \in Procs |-> {}]
    /\ sentLive = [id \in JobIds |-> 0]
    /\ sent = [p \in Procs |-> 0]
    /\ raised = FALSE
    /\ reported = FALSE
    /\ notifiedAtScrape = [p \in Procs |-> 0]
    /\ pausedAtScrape = FALSE
    /\ is_paused = FALSE
    /\ cmd = None
    /\ handled = 0
    /\ reply = <<>>
    /\ saved_resume = the_resume
    /\ saved_current_job = the_current_job
    /\ upload = NoUpload
    /\ applied_rules = <<>>
    /\ fit_result = None

\* db.filter_new_jobs(jobs)
FilterNew(jobs) ==
    /\ op' = "filter"
    /\ batch' = jobs
    /\ result' = filter_new_jobs(store, jobs)
    /\ prev' = IF op = "filter" /\ batch = jobs THEN "filter_same"
               ELSE IF op = "mark" /\ flag /\ batch = jobs THEN "mark_true_same"
               ELSE "other"
    /\ flag' = FALSE
    /\ UNCHANGED <<storeVars, resumeVars, rankVars, runVars, scoreVars, botVars, repoVars>>

\* db.mark_jobs_seen(jobs, notified)
MarkSeen(jobs, notified) ==
    /\ store' = mark_jobs_seen(store, jobs, notified, clock)
    /\ lastWrite' = WriteHistory(lastWrite, jobs, notified, clock)
    /\ demoted' = DemoteHistory(demoted, store, jobs, notified)
    /\ op' = "mark"
    /\ batch' = jobs
    /\ flag' = notified
    /\ result' = <<>>
    /\ prev' = "other"
    /\ UNCHANGED <<clock, tz, ticks, resumeVars, rankVars, runVars, scoreVars, botVars, repoVars>>

\* db.cleanup_old_jobs(days=30)
Cleanup ==
    /\ store' = cleanup_old_jobs(store, clock, tz, RetentionDays)
    /\ lastWrite' = [id \in JobIds |-> lastWrite[id] \cap store']
    /\ demoted' = {id \in demoted : RowsOf(store', id) # {}}
    /\ op' = "cleanup"
    /\ batch' = <<>>
    /\ flag' = FALSE
    /\ result' = <<>>
    /\ prev' = "other"
    /\ UNCHANGED <<clock, tz, ticks, resumeVars, rankVars, runVars, scoreVars, botVars, repoVars>>

\* Time passes between two calls.
Tick(d) ==
    /\ ticks < MaxTicks
    /\ clock' = clock + d
    /\ ticks' = ticks + 1
    /\ UNCHANGED <<store, tz, lastWrite, demoted, harnessVars, resumeVars, rankVars, runVars, scoreVars, botVars, repoVars>>

StoreNext ==
    \/ \E jobs \in JobLists(StoreJobs, MaxBatch) : FilterNew(jobs)
    \/ \E jobs \in JobLists(StoreJobs, MaxBatch), notified \in BOOLEAN :
            MarkSeen(jobs, notified)
    \/ Cleanup
    \/ \E d \in LongTick : Tick(d)

SpecStore == StoreInit /\ [][StoreNext]_vars

\* The store under marking, ageing and retention cleanup only.
RetentionNext ==
    \/ \E jobs \in JobLists(StoreJobs, MaxBatch), notified \in BOOLEAN :
            MarkSeen(jobs, notified)
    \/ Cleanup
    \/ \E d \in TickHours : Tick(d)

SpecRetention == StoreInit /\ [][RetentionNext]_vars

(***************************************************************************)
(* Ranking: rank_jobs_with_scores applied to a list of scraped jobs.       *)
(***************************************************************************)
RankInit ==
    /\ new_jobs \in JobLists(RankJobs, MaxRank)
    /\ max_results \in 0..MaxResults
    /\ the_resume \in Resumes
    /\ the_current_job \in CurrentJobs
    /\ scored_jobs = <<>>
    /\ ranked = <<>>
    /\ rpc = "input"
    /\ store = {}
    /\ clock = 0
    /\ tz = 0
    /\ ticks = 0
    /\ lastWrite = [id \in JobIds |-> {}]
    /\ demoted = {}
    /\ op = "init"
    /\ batch = <<>>
    /\ flag = FALSE
    /\ result = <<>>
    /\ prev = "none"
    /\ pc = [p \in Procs |-> "idle"]
    /\ run_all_jobs = [p \in Procs |-> <<>>]
    /\ run_new_jobs = [p \in Procs |-> <<>>]
    /\ run_top_jobs = [p \in Procs |-> <<>>]
    /\ runs = 0
    /\ seenAtFilter = [p \in Procs |-> {}]
    /\ handed = [p \in Procs |-> {}]
    /\ sentLive = [id \in JobIds |-> 0]
    /\ sent = [p \in Procs |-> 0]
    /\ raised = FALSE
    /\ reported = FALSE
    /\ notifiedAtScrape = [p \in Procs |-> 0]
    /\ pausedAtScrape = FALSE
    /\ is_paused = FALSE
    /\ cmd = None
    /\ handled = 0
    /\ reply = <<>>
    /\ saved_resume = the_resume
    /\ saved_current_job = the_current_job
    /\ upload = NoUpload
    /\ applied_rules = <<>>
    /\ fit_result = None

\* rank_jobs(new_jobs, max_results, return_scored=True)
\* job.title.lower(), job.company.lower() and job.location.lower() raise
\* AttributeError on a posting that lacks the field.
Raises(job) == ~({"title", "company", "location"} \subseteq DOMAIN job)

\* rank_jobs scores the postings in a list comprehension with no exception
\* handler: the first posting that raises ends the call and nothing is
\* returned.
Rank ==
    /\ rpc = "input"
    /\ IF \E i \in 1..Len(new_jobs) : Raises(new_jobs[i])
       THEN /\ rpc' = "raised"
            /\ UNCHANGED <<scored_jobs, ranked>>
       ELSE /\ scored_jobs' = ScoreAll(new_jobs, the_resume, the_current_job)
            /\ ranked' = rank_jobs_with_scores(new_jobs, max_results, the_resume,
                                               the_current_job)
            /\ rpc' = "ranked"
    /\ UNCHANGED <<new_jobs, max_results, resumeVars, storeVars, harnessVars, runVars, scoreVars, botVars, repoVars>>

RankNext == Rank

SpecRank == RankInit /\ [][RankNext]_vars

\* Postings that lack a field the scorer reads.
NoTitleJob ==
    [id |-> "m1", company |-> "Acme Corp", location |-> "Remote", salary |-> None,
     url |-> "http://...", source |-> "indeed", posted_date |-> None,
     description_snippet |-> None]

NoLocationJob ==
    [id |-> "m2", title |-> "Help Desk Technician", company |-> "Acme Corp",
     salary |-> None, url |-> "http://...", source |-> "indeed", posted_date |-> None,
     description_snippet |-> None]

RankErrJobs == {J1, J2, J4, NoTitleJob, NoLocationJob}

\* rank_jobs on lists that may hold a malformed posting
RankErrInit ==
    /\ new_jobs \in JobLists(RankErrJobs, MaxRank)
    /\ max_results \in 0..MaxResults
    /\ the_resume \in Resumes
    /\ the_current_job \in CurrentJobs
    /\ scored_jobs = <<>>
    /\ ranked = <<>>
    /\ rpc = "input"
    /\ store = {}
    /\ clock = 0
    /\ tz = 0
    /\ ticks = 0
    /\ lastWrite = [id \in JobIds |-> {}]
    /\ demoted = {}
    /\ op = "init"
    /\ batch = <<>>
    /\ flag = FALSE
    /\ result = <<>>
    /\ prev = "none"
    /\ pc = [p \in Procs |-> "idle"]
    /\ run_all_jobs = [p \in Procs |-> <<>>]
    /\ run_new_jobs = [p \in Procs |-> <<>>]
    /\ run_top_jobs = [p \in Procs |-> <<>>]
    /\ runs = 0
    /\ seenAtFilter = [p \in Procs |-> {}]
    /\ handed = [p \in Procs |-> {}]
    /\ sentLive = [id \in JobIds |-> 0]
    /\ sent = [p \in Procs |-> 0]
    /\ raised = FALSE
    /\ reported = FALSE
    /\ notifiedAtScrape = [p \in Procs |-> 0]
    /\ pausedAtScrape = FALSE
    /\ is_paused = FALSE
    /\ cmd = None
    /\ handled = 0
    /\ reply = <<>>
    /\ saved_resume = the_resume
    /\ saved_current_job = the_current_job
    /\ upload = NoUpload
    /\ applied_rules = <<>>
    /\ fit_result = None

SpecRankErr == RankErrInit /\ [][RankNext]_vars

(***************************************************************************)
(* Fit scoring: calculate_fit_score applied to one posting, with and       *)
(* without a resume and a current job.                                     *)
(***************************************************************************)
FitTitles ==
    {"IT Support Specialist II", "AI Integration Support Engineer", "Sales Representative",
     "Senior Technical Support Analyst", "Help Desk Technician", "Customer Support Lead"}

FitDescriptions ==
    {None,
     Some("Looking for 3+ years experience in desktop support, Active Directory, Office 365"),
     Some("Minimum 8 years of experience; ITIL required"),
     Some("At least 6 years in IT, CompTIA A+ preferred"),
     Some("2 years of experience with ITIL, VPN and DNS")}

FitJob(title, description) ==
    [Job("f1", title, "Acme Corp", "Remote", None, "http://...", "linkedin")
        EXCEPT !.description_snippet = description]

FitJobs == {FitJob(t, d) : t \in FitTitles, d \in FitDescriptions}

\* Resumes as _parse_resume builds them (titles in title case,
\* certifications in upper case): one with a job title and years only, one
\* whose skills are those of a network technician, one whose skills the
\* self-test posting names.
TitleOnlyResume == Resume(<<>>, <<"It Support Specialist">>, 5, <<>>)

NetworkResume ==
    Resume(<<"dhcp", "dns", "linux", "tcp/ip", "vpn">>, <<"It Support Specialist">>, 5, <<"CCNA">>)

DesktopResume ==
    Resume(<<"active directory", "desktop support", "office 365">>,
           <<"It Support Specialist">>, 5, <<>>)

FitResumes ==
    {None, Some(SampleResume), Some(BareResume), Some(TitleOnlyResume),
     Some(NetworkResume), Some(DesktopResume)}

FitInit ==
    /\ new_jobs \in {<<j>> : j \in FitJobs}
    /\ the_resume \in FitResumes
    /\ the_current_job \in CurrentJobs
    /\ max_results = 0
    /\ scored_jobs = <<>>
    /\ ranked = <<>>
    /\ rpc = "fit_input"
    /\ applied_rules = <<>>
    /\ fit_result = None
    /\ store = {}
    /\ clock = 0
    /\ tz = 0
    /\ ticks = 0
    /\ lastWrite = [id \in JobIds |-> {}]
    /\ demoted = {}
    /\ op = "init"
    /\ batch = <<>>
    /\ flag = FALSE
    /\ result = <<>>
    /\ prev = "none"
    /\ pc = [p \in Procs |-> "idle"]
    /\ run_all_jobs = [p \in Procs |-> <<>>]
    /\ run_new_jobs = [p \in Procs |-> <<>>]
    /\ run_top_jobs = [p \in Procs |-> <<>>]
    /\ runs = 0
    /\ seenAtFilter = [p \in Procs |-> {}]
    /\ handed = [p \in Procs |-> {}]
    /\ sentLive = [id \in JobIds |-> 0]
    /\ sent = [p \in Procs |-> 0]
    /\ raised = FALSE
    /\ reported = FALSE
    /\ notifiedAtScrape = [p \in Procs |-> 0]
    /\ pausedAtScrape = FALSE
    /\ is_paused = FALSE
    /\ cmd = None
    /\ handled = 0
    /\ reply = <<>>
    /\ saved_resume = the_resume
    /\ saved_current_job = the_current_job
    /\ upload = NoUpload

\* resume_manager.calculate_fit_score(job_title, job_description or "")
Fit ==
    /\ rpc = "fit_input"
    /\ fit_result' = Some(calculate_fit_score(the_resume, the_current_job, new_jobs[1].title,
                            IF new_jobs[1].description_snippet = None THEN ""
                            ELSE new_jobs[1].description_snippet[1]))
    /\ rpc' = "fitted"
    /\ UNCHANGED <<new_jobs, max_results, scored_jobs, ranked, applied_rules,
                   resumeVars, storeVars, harnessVars, runVars, botVars, repoVars>>

FitNext == Fit

SpecFit == FitInit /\ [][FitNext]_vars

(***************************************************************************)
(* One call of ranker.calculate_job_score on one posting.                  *)
(***************************************************************************)
ScoreTitles ==
    {"IT Support Specialist", "Technical Support Lead", "Customer Support Lead",
     "Senior Technical Support Analyst", "Sales Representative", "Help Desk Technician",
     "AI Integration Support Engineer", "Junior Systems Administrator"}

ScoreLocations ==
    {"Remote", "Remote / Hybrid", "Remote or Hybrid - Jersey City, NJ", "Newark / Princeton, NJ",
     "West New York, NJ", "East Orange, NJ", "Orange / Hoboken", "Trenton, NJ",
     "Brooklyn, New York", "Queens / Manhattan", "Staten Island, New York",
     "New York, NY (Hybrid)", "Cherry Hill, NJ", "Austin, TX"}

ScoreCompanies == {"Google", "Staffing Co", "Random Corp"}

ScoreSalaries == {None, Some("$85,000"), Some("$95,000")}

ScoreJobs ==
    {Job("s1", t, c, l, sal, "http://...", "linkedin") :
        t \in ScoreTitles, c \in ScoreCompanies, l \in ScoreLocations, sal \in ScoreSalaries}

ScoreInit ==
    /\ new_jobs \in {<<j>> : j \in ScoreJobs}
    /\ the_resume \in {None, Some(BareResume)}
    /\ the_current_job = None
    /\ max_results = 0
    /\ scored_jobs = <<>>
    /\ ranked = <<>>
    /\ rpc = "score_input"
    /\ applied_rules = <<>>
    /\ fit_result = None
    /\ store = {}
    /\ clock = 0
    /\ tz = 0
    /\ ticks = 0
    /\ lastWrite = [id \in JobIds |-> {}]
    /\ demoted = {}
    /\ op = "init"
    /\ batch = <<>>
    /\ flag = FALSE
    /\ result = <<>>
    /\ prev = "none"
    /\ pc = [p \in Procs |-> "idle"]
    /\ run_all_jobs = [p \in Procs |-> <<>>]
    /\ run_new_jobs = [p \in Procs |-> <<>>]
    /\ run_top_jobs = [p \in Procs |-> <<>>]
    /\ runs = 0
    /\ seenAtFilter = [p \in Procs |-> {}]
    /\ handed = [p \in Procs |-> {}]
    /\ sentLive = [id \in JobIds |-> 0]
    /\ sent = [p \in Procs |-> 0]
    /\ raised = FALSE
    /\ reported = FALSE
    /\ notifiedAtScrape = [p \in Procs |-> 0]
    /\ pausedAtScrape = FALSE
    /\ is_paused = FALSE
    /\ cmd = None
    /\ handled = 0
    /\ reply = <<>>
    /\ saved_resume = the_resume
    /\ saved_current_job = the_current_job
    /\ upload = NoUpload

\* calculate_job_score(job): applied_rules records, rule by rule, the points
\* added to score and the reasons appended.
Score ==
    /\ rpc = "score_input"
    /\ applied_rules' = RelevanceRules(new_jobs[1])
    /\ scored_jobs' = <<calculate_job_score(new_jobs[1], the_resume, the_current_job)>>
    /\ rpc' = "scored"
    /\ UNCHANGED <<new_jobs, max_results, ranked, fit_result,
                   resumeVars, storeVars, harnessVars, runVars, botVars, repoVars>>

ScoreNext == Score

SpecScore == ScoreInit /\ [][ScoreNext]_vars

(***************************************************************************)
(* Runs: agent.run_job_scout (scheduled) and bot_listener.cmd_search       *)
(* (interactive, listener not paused) over the one store.  Each database   *)
(* call is one SQLite transaction and is one step; ranking and             *)
(* send_job_batch touch no shared state and are one step.                  *)
(***************************************************************************)
IdsOf(jobs) == {jobs[i].id : i \in 1..Len(jobs)}

RunInit ==
    /\ store = {}
    /\ clock = 0
    /\ tz \in TzOffsets
    /\ ticks = 0
    /\ lastWrite = [id \in JobIds |-> {}]
    /\ demoted = {}
    /\ op = "init"
    /\ batch = <<>>
    /\ flag = FALSE
    /\ result = <<>>
    /\ prev = "none"
    /\ the_resume \in {None, Some(SampleResume)}
    /\ the_current_job = None
    /\ new_jobs = <<>>
    /\ max_results = 0
    /\ scored_jobs = <<>>
    /\ ranked = <<>>
    /\ rpc = "idle"
    /\ pc = [p \in Procs |-> "idle"]
    /\ run_all_jobs = [p \in Procs |-> <<>>]
    /\ run_new_jobs = [p \in Procs |-> <<>>]
    /\ run_top_jobs = [p \in Procs |-> <<>>]
    /\ runs = 0
    /\ seenAtFilter = [p \in Procs |-> {}]
    /\ handed = [p \in Procs |-> {}]
    /\ sentLive = [id \in JobIds |-> 0]
    /\ sent = [p \in Procs |-> 0]
    /\ raised = FALSE
    /\ reported = FALSE
    /\ notifiedAtScrape = [p \in Procs |-> 0]
    /\ pausedAtScrape = FALSE
    /\ is_paused = FALSE
    /\ cmd = None
    /\ handled = 0
    /\ reply = <<>>
    /\ saved_resume = the_resume
    /\ saved_current_job = the_current_job
    /\ upload = NoUpload
    /\ applied_rules = <<>>
    /\ fit_result = None

\* all_jobs = await scrape_all_jobs(); an empty scrape ends the run, and
\* next is the step that follows a scrape that found postings.
StartRun(p, jobs, limit, next) ==
    /\ pc[p] = "idle"
    /\ runs < limit
    /\ runs' = runs + 1
    /\ run_all_jobs' = [run_all_jobs EXCEPT ![p] = jobs]
    /\ run_new_jobs' = [run_new_jobs EXCEPT ![p] = <<>>]
    /\ run_top_jobs' = [run_top_jobs EXCEPT ![p] = <<>>]
    /\ handed' = [handed EXCEPT ![p] = {}]
    /\ seenAtFilter' = [seenAtFilter EXCEPT ![p] = {}]
    /\ pc' = [pc EXCEPT ![p] = IF jobs = <<>> THEN "idle" ELSE next]
    /\ sent' = [sent EXCEPT ![p] = 0]
    /\ raised' = (IF p = "scheduled" THEN FALSE ELSE raised)
    /\ reported' = (IF p = "scheduled" THEN FALSE ELSE reported)
    /\ notifiedAtScrape' = [notifiedAtScrape EXCEPT ![p] = total_notified(store)]
    /\ pausedAtScrape' = (IF p = "scheduled" THEN is_paused ELSE pausedAtScrape)
    /\ UNCHANGED <<storeVars, harnessVars, resumeVars, rankVars, sentLive, scoreVars, repoVars>>

\* The scrape of run_job_scout, and of cmd_search on a listener that is
\* not paused.
Scrape(p, jobs, limit) ==
    /\ StartRun(p, jobs, limit, "filter")
    /\ UNCHANGED botVars

\* new_jobs = db.filter_new_jobs(all_jobs)
Filter(p) ==
    /\ pc[p] = "filter"
    /\ run_new_jobs' = [run_new_jobs EXCEPT ![p] = filter_new_jobs(store, run_all_jobs[p])]
    /\ seenAtFilter' = [seenAtFilter EXCEPT ![p] = get_seen_job_ids(store)]
    /\ pc' = [pc EXCEPT ![p] = IF run_new_jobs'[p] # <<>> THEN "send" ELSE "mark_all"]
    /\ UNCHANGED <<storeVars, harnessVars, resumeVars, rankVars,
                   run_all_jobs, run_top_jobs, runs, handed, sentLive, scoreVars, botVars, repoVars,
                   sent, raised, reported, notifiedAtScrape, pausedAtScrape>>

\* top_jobs = rank_jobs(new_jobs, max_results=get_daily_job_limit());
\* await notifier.send_job_batch(top_jobs)
\* send_job_batch returns how many of the alerts send_message delivered;
\* send_message catches every exception, so the batch never raises.
SendBatch(p, all_delivered) ==
    /\ pc[p] = "send"
    /\ run_top_jobs' = [run_top_jobs EXCEPT ![p] =
            rank_jobs(run_new_jobs[p], get_daily_job_limit, the_resume, the_current_job)]
    /\ handed' = [handed EXCEPT ![p] = IdsOf(run_top_jobs'[p])]
    /\ sentLive' = [id \in JobIds |->
            IF id \in IdsOf(run_top_jobs'[p]) THEN sentLive[id] + 1 ELSE sentLive[id]]
    /\ IF all_delivered
       THEN sent' = [sent EXCEPT ![p] = Len(run_top_jobs'[p])]
       ELSE \E n \in 0..(Len(run_top_jobs'[p]) - 1) : sent' = [sent EXCEPT ![p] = n]
    /\ pc' = [pc EXCEPT ![p] = "mark_top"]
    /\ UNCHANGED <<storeVars, harnessVars, resumeVars, rankVars,
                   run_all_jobs, run_new_jobs, runs, seenAtFilter, scoreVars, botVars, repoVars,
                   raised, reported, notifiedAtScrape, pausedAtScrape>>

\* The batch with every alert delivered.
Send(p) == SendBatch(p, TRUE)

\* The batch with at least one alert that Telegram did not accept.
SendUndelivered(p) == SendBatch(p, FALSE)

\* Marks only the alerts the channel delivered.
MarkTopDelivered(p) ==
    /\ pc[p] = "mark_top"
    /\ store' = mark_jobs_seen(store, SubSeq(run_top_jobs[p], 1, sent[p]), TRUE, clock)
    /\ lastWrite' = WriteHistory(lastWrite, SubSeq(run_top_jobs[p], 1, sent[p]), TRUE, clock)
    /\ demoted' = DemoteHistory(demoted, store, SubSeq(run_top_jobs[p], 1, sent[p]), TRUE)
    /\ pc' = [pc EXCEPT ![p] = "mark_all"]
    /\ UNCHANGED <<clock, tz, ticks, harnessVars, resumeVars, rankVars,
                   run_all_jobs, run_new_jobs, run_top_jobs, runs, seenAtFilter,
                   handed, sentLive, scoreVars, botVars, repoVars,
                   sent, raised, reported, notifiedAtScrape, pausedAtScrape>>

\* db.mark_jobs_seen(top_jobs, notified=True)
MarkTop(p) ==
    /\ pc[p] = "mark_top"
    /\ store' = mark_jobs_seen(store, run_top_jobs[p], TRUE, clock)
    /\ lastWrite' = WriteHistory(lastWrite, run_top_jobs[p], TRUE, clock)
    /\ demoted' = DemoteHistory(demoted, store, run_top_jobs[p], TRUE)
    /\ pc' = [pc EXCEPT ![p] = "mark_all"]
    /\ UNCHANGED <<clock, tz, ticks, harnessVars, resumeVars, rankVars,
                   run_all_jobs, run_new_jobs, run_top_jobs, runs, seenAtFilter,
                   handed, sentLive, scoreVars, botVars, repoVars,
                   sent, raised, reported, notifiedAtScrape, pausedAtScrape>>

\* Marks only the postings that were not handed to the channel.
Unsent(p) == SelectSeq(run_all_jobs[p], LAMBDA job : job.id \notin handed[p])

MarkAllUnsent(p) ==
    /\ pc[p] = "mark_all"
    /\ store' = mark_jobs_seen(store, Unsent(p), FALSE, clock)
    /\ lastWrite' = WriteHistory(lastWrite, Unsent(p), FALSE, clock)
    /\ demoted' = DemoteHistory(demoted, store, Unsent(p), FALSE)
    /\ pc' = [pc EXCEPT ![p] = IF p = "scheduled" THEN "cleanup" ELSE "idle"]
    /\ UNCHANGED <<clock, tz, ticks, harnessVars, resumeVars, rankVars,
                   run_all_jobs, run_new_jobs, run_top_jobs, runs, seenAtFilter,
                   handed, sentLive, scoreVars, botVars, repoVars,
                   sent, raised, reported, notifiedAtScrape, pausedAtScrape>>

\* db.mark_jobs_seen(all_jobs, notified=False); run_job_scout goes on to
\* the cleanup, cmd_search returns.
MarkAll(p) ==
    /\ pc[p] = "mark_all"
    /\ store' = mark_jobs_seen(store, run_all_jobs[p], FALSE, clock)
    /\ lastWrite' = WriteHistory(lastWrite, run_all_jobs[p], FALSE, clock)
    /\ demoted' = DemoteHistory(demoted, store, run_all_jobs[p], FALSE)
    /\ pc' = [pc EXCEPT ![p] = IF p = "scheduled" THEN "cleanup" ELSE "idle"]
    /\ UNCHANGED <<clock, tz, ticks, harnessVars, resumeVars, rankVars,
                   run_all_jobs, run_new_jobs, run_top_jobs, runs, seenAtFilter,
                   handed, sentLive, scoreVars, botVars, repoVars,
                   sent, raised, reported, notifiedAtScrape, pausedAtScrape>>

\* db.cleanup_old_jobs(days=30) at the end of run_job_scout
RunCleanup ==
    /\ pc["scheduled"] = "cleanup"
    /\ store' = cleanup_old_jobs(store, clock, tz, RetentionDays)
    /\ lastWrite' = [id \in JobIds |-> lastWrite[id] \cap store']
    /\ demoted' = {id \in demoted : RowsOf(store', id) # {}}
    /\ sentLive' = [id \in JobIds |->
            IF RowsOf(store, id) # {} /\ RowsOf(store', id) = {} THEN 0 ELSE sentLive[id]]
    /\ pc' = [pc EXCEPT !["scheduled"] = "idle"]
    /\ UNCHANGED <<clock, tz, ticks, harnessVars, resumeVars, rankVars,
                   run_all_jobs, run_new_jobs, run_top_jobs, runs, seenAtFilter, handed,
                   scoreVars, botVars, repoVars, sent, raised, reported, notifiedAtScrape, pausedAtScrape>>

\* Time passes between runs.
Elapse(d) ==
    /\ \A p \in Procs : pc[p] = "idle"
    /\ Tick(d)

\* Scheduled runs only, one after the other.
ScheduledNext ==
    \/ \E jobs \in JobLists(RunJobs, MaxScrape) : Scrape("scheduled", jobs, MaxRuns)
    \/ Filter("scheduled")
    \/ Send("scheduled")
    \/ MarkTop("scheduled")
    \/ MarkAll("scheduled")
    \/ RunCleanup
    \/ \E d \in LongTick : Elapse(d)

SpecScheduled == RunInit /\ [][ScheduledNext]_vars

\* The postings two overlapping runs scrape, and the time that passes
\* between their steps.
OverlapJobs == {J1, J1b, J2}

ShortTick == {1}

\* A scheduled run and an interactive run, interleaved at will.
OverlapNext ==
    \/ \E p \in Procs, jobs \in JobLists(OverlapJobs, MaxScrape) :
            Scrape(p, jobs, MaxOverlapRuns)
    \/ \E p \in Procs : Filter(p)
    \/ \E p \in Procs : Send(p)
    \/ \E p \in Procs : MarkTop(p)
    \/ \E p \in Procs : MarkAll(p)
    \/ RunCleanup
    \/ \E d \in ShortTick : Tick(d)

\* Within the hours two overlapping runs take, the cleanup's cutoff is a
\* month back at every UTC offset: the runs are taken on a UTC host.
OverlapInit == RunInit /\ tz = 0

SpecOverlap == OverlapInit /\ [][OverlapNext]_vars

(***************************************************************************)
(* Properties of the Seen-Store.                                           *)
(***************************************************************************)
NewIndexes(rows, jobs) == {i \in 1..Len(jobs) : RowsOf(rows, jobs[i].id) = {}}

NthOf(S, n) == CHOOSE i \in S : Cardinality({j \in S : j < i}) = n - 1

\* res lists, in the order of jobs, exactly the jobs whose id has no row.
ExactlyNew(res, rows, jobs) ==
    /\ Len(res) = Cardinality(NewIndexes(rows, jobs))
    /\ \A n \in 1..Len(res) : res[n] = jobs[NthOf(NewIndexes(rows, jobs), n)]

\* C2: filterNew returns, in input order, exactly the postings whose id has
\* no record in the store at the time of the call, and leaves the store
\* unchanged.
C2_FilterNewExact ==
    [][op' = "filter" => (store' = store /\ ExactlyNew(result', store, batch'))]_vars

\* C2 witness: a two-posting batch whose first posting was filtered out as
\* seen and whose second was returned as new.
C2_Witness ==
    /\ op = "filter"
    /\ Len(batch) = 2
    /\ RowsOf(store, batch[1].id) # {}
    /\ result = <<batch[2]>>

\* C3: two consecutive filterNew calls on the same batch with no markSeen
\* between them return the same postings, and filterNew of a batch right
\* after markSeen(batch, notified=true) returns the empty list.
C3_DedupIdempotent ==
    [][/\ (op = "filter" /\ op' = "filter" /\ batch' = batch) => result' = result
       /\ (op = "mark" /\ flag /\ op' = "filter" /\ batch' = batch) => result' = <<>>]_vars

\* C3 witness: filterNew of a two-posting batch returned nothing right after
\* that batch was marked with notified=true.
C3_Witness ==
    /\ op = "filter"
    /\ prev = "mark_true_same"
    /\ Len(batch) = 2
    /\ result = <<>>

\* C4: the store holds exactly one record per marked id (none once cleanup
\* removed it), and that record is the one written by the latest markSeen
\* that included the id, its notified flag included.
C4_LastWriterWins ==
    /\ \A id \in JobIds :
          /\ RowsOf(store, id) = lastWrite[id]
          /\ Cardinality(RowsOf(store, id)) <= 1
    /\ op = "mark" =>
          \A i \in 1..Len(batch) :
              \E r \in store :
                  /\ RowsOf(store, batch[i].id) = {r}
                  /\ r.title = batch[i].title
                  /\ r.company = batch[i].company
                  /\ r.url = batch[i].url
                  /\ r.source = batch[i].source
                  /\ r.notified = flag

\* C4 witness: markSeen(.., notified=false) has just replaced a notified
\* record of posting "1", under its edited title, by an un-notified one.
C4_Witness ==
    /\ op = "mark"
    /\ ~flag
    /\ "1" \in demoted
    /\ \E r \in store : r.job_id = "1" /\ ~r.notified /\ r.title = J1b.title

\* C6 (the claim as stated): cleanup(30) deletes exactly the records whose
\* firstSeen is earlier than now - 30 days and leaves the others unchanged.
C6_CleanupExact ==
    [][(op' = "cleanup" /\ ticks' = ticks) =>
          store' = {r \in store : ~(r.first_seen < clock - RetentionDays * 24)}]_vars


(***************************************************************************)
(* Properties of the ranking.                                              *)
(***************************************************************************)
\* The relevance score of each catalogue job, computed once.
RelevanceTable == [j \in RankJobs |-> RelevanceScore(j)]

Positives == {i \in 1..Len(new_jobs) : scored_jobs[i].score2 > 0}

InputIndex(job) == CHOOSE i \in 1..Len(new_jobs) : new_jobs[i].id = job.id

\* C7: for every list of postings and every k >= 0, rank returns at most k
\* items and the scores of consecutive returned items never increase.
C7_MonotonicTruncation ==
    rpc = "ranked" =>
        /\ Len(ranked) <= max_results
        /\ \A n \in 1..(Len(ranked) - 1) : ranked[n].score2 >= ranked[n + 1].score2

\* A ranking of more positive postings than k that returned exactly k >= 2
\* items, the first with a strictly higher score than the second.
C7_Witness ==
    /\ rpc = "ranked"
    /\ max_results >= 2
    /\ Cardinality(Positives) > max_results
    /\ Len(ranked) = max_results
    /\ ranked[1].score2 > ranked[2].score2

\* C8: two input postings with equal combined score that are both returned
\* appear in the output in the order they had in the input.
C8_StableTies ==
    rpc = "ranked" =>
        \A a, b \in 1..Len(ranked) :
            (a < b /\ ranked[a].score2 = ranked[b].score2)
                => InputIndex(ranked[a].job) < InputIndex(ranked[b].job)

\* Two postings of equal score are returned after a higher one, and the
\* first of the two came after the second's neighbour in the input.
C8_Witness ==
    /\ rpc = "ranked"
    /\ Len(ranked) = 3
    /\ ranked[1].score2 > ranked[2].score2
    /\ ranked[2].score2 = ranked[3].score2
    /\ InputIndex(ranked[2].job) = 1
    /\ InputIndex(ranked[3].job) = 2
    /\ InputIndex(ranked[1].job) = 3

C10_FitBonus ==
    rpc = "ranked" =>
        \A i \in 1..Len(scored_jobs) :
            LET sj == scored_jobs[i]
            IN  /\ sj.job = new_jobs[i]
                /\ IF the_resume # None
                   THEN /\ sj.fit_score # None
                        /\ sj.score2 = 2 * RelevanceTable[sj.job] + sj.fit_score[1].overall_score
                   ELSE /\ sj.fit_score = None
                        /\ sj.score2 = 2 * RelevanceTable[sj.job]

\* A ranking pass with a resume whose overall fit is odd, so the bonus has
\* a half point.
C10_Witness ==
    /\ rpc = "ranked"
    /\ the_resume # None
    /\ \E n \in 1..Len(ranked) :
          /\ ranked[n].fit_score # None
          /\ ranked[n].fit_score[1].overall_score % 2 = 1
          /\ ranked[n].score2 = 2 * RelevanceTable[ranked[n].job] + ranked[n].fit_score[1].overall_score

\* A ranking pass with no resume loaded that returned a posting.
C10_WitnessNoResume ==
    /\ rpc = "ranked"
    /\ the_resume = None
    /\ Len(ranked) >= 1
    /\ ranked[1].fit_score = None

\* C15: {IT Support Specialist, Google, Remote, $85,000} scores strictly
\* higher than {Sales Representative, Staffing Co, NYC, no salary}; the
\* second scores at most 0 and is not in the output of the ranking, with or
\* without a resume.
C15_ScenarioA ==
    rpc = "ranked" =>
        \A i \in 1..Len(new_jobs) :
            new_jobs[i] = J2 =>
                /\ scored_jobs[i].score2 <= 0
                /\ \A n \in 1..Len(ranked) : ranked[n].job # J2
                /\ \A j \in 1..Len(new_jobs) :
                        new_jobs[j] = J1 => scored_jobs[j].score2 > scored_jobs[i].score2

\* Both postings are ranked with a resume loaded and room for both; only
\* the first is returned.
C15_Witness ==
    /\ rpc = "ranked"
    /\ the_resume = Some(SampleResume)
    /\ new_jobs = <<J2, J1>>
    /\ max_results >= 2
    /\ Len(ranked) = 1
    /\ ranked[1].job = J1

\* The same with no resume loaded.
C15_WitnessNoResume ==
    /\ rpc = "ranked"
    /\ the_resume = None
    /\ new_jobs = <<J2, J1>>
    /\ max_results >= 2
    /\ Len(ranked) = 1
    /\ ranked[1].job = J1

(***************************************************************************)
(* Properties of the relevance rules.                                      *)
(***************************************************************************)
Scored == rpc = "scored"

\* The lower-cased titles and locations of the postings scored.
TitleLower == [t \in ScoreTitles |-> lower(t)]

LocationLower == [l \in ScoreLocations |-> lower(l)]

TheTitle == TitleLower[new_jobs[1].title]

TheLocation == LocationLower[new_jobs[1].location]

TheReasons == scored_jobs[1].reasons

HasReason(r) == \E i \in 1..Len(TheReasons) : TheReasons[i] = r

\* The reasons of the scored posting that report a title keyword.
TitleMatchReasons ==
    {i \in 1..Len(TheReasons) :
        Len(TheReasons[i]) >= 14 /\ SubSeq(TheReasons[i], 1, 14) = "Title match: '"}

\* The entries of the keyword table that occur in the title.
KeywordHitsTable ==
    [t \in ScoreTitles |->
        {i \in 1..Len(priority_keywords) : Contains(TitleLower[t], priority_keywords[i][1])}]

KeywordHits == KeywordHitsTable[new_jobs[1].title]

C16_WitnessNoMatch ==
    /\ Scored
    /\ KeywordHits = {}
    /\ applied_rules[1] = NoRule

\* The geography outcomes in the order of precedence, each with the test on
\* the lower-cased location, its points and its reason.
GeoOutcomes(location_lower) ==
    << [hit |-> \E i \in 1..Len(excluded_nj) : Contains(location_lower, excluded_nj[i]),
        pts |-> -20, reason |-> "NJ too far (>30 mi) - excluded"],
       [hit |-> \E i \in 1..Len(close_nj) : Contains(location_lower, close_nj[i]),
        pts |-> 25, reason |-> "NJ close (5-15 mi)"],
       [hit |-> \E i \in 1..Len(medium_nj) : Contains(location_lower, medium_nj[i]),
        pts |-> 18, reason |-> "NJ medium (15-30 mi)"],
       [hit |-> Contains(location_lower, "manhattan"),
        pts |-> 20, reason |-> "NYC (Manhattan)"],
       [hit |-> Contains(location_lower, "brooklyn"),
        pts |-> 20, reason |-> "NYC (Brooklyn)"],
       [hit |-> \E i \in 1..Len(excluded_nyc) : Contains(location_lower, excluded_nyc[i]),
        pts |-> -15, reason |-> "NYC excluded borough (Queens/Bronx/SI)"],
       [hit |-> Contains(location_lower, "new york") \/ Contains(location_lower, "nyc"),
        pts |-> 10, reason |-> "NYC (unspecified)"],
       [hit |-> Contains(location_lower, "nj") \/ Contains(location_lower, "new jersey"),
        pts |-> 12, reason |-> "NJ area"] >>

GeoTable == [l \in ScoreLocations |-> GeoOutcomes(LocationLower[l])]

TheGeo == GeoTable[new_jobs[1].location]

GeoHits == {i \in 1..Len(TheGeo) : TheGeo[i].hit}

OutsideReason == "Location outside target area"

\* The geography reasons among the reasons of the scored posting.
GeoReasonsGiven ==
    {r \in {TheGeo[i].reason : i \in 1..Len(TheGeo)} \cup {OutsideReason} :
        HasReason(r)}

\* C17: at most one geography outcome contributes, the first that matches
\* in the order too far, close, medium, allowed subdivision, excluded
\* subdivision, generic city, generic region; the penalty for a location
\* outside the target area applies iff none matched and the location
\* contains neither 'remote' nor 'hybrid'.
C17_GeoPrecedence ==
    Scored =>
        /\ Cardinality(GeoReasonsGiven) <= 1
        /\ Len(applied_rules[5].reasons) <= 1
        /\ IF GeoHits # {}
           THEN LET first == CHOOSE i \in GeoHits : \A j \in GeoHits : i <= j
                IN  /\ applied_rules[5].pts = TheGeo[first].pts
                    /\ GeoReasonsGiven = {TheGeo[first].reason}
           ELSE IF ~Contains(TheLocation, "remote") /\ ~Contains(TheLocation, "hybrid")
           THEN applied_rules[5].pts = -10 /\ GeoReasonsGiven = {OutsideReason}
           ELSE applied_rules[5].pts = 0 /\ GeoReasonsGiven = {}

\* "Newark / Princeton, NJ": too far, close and generic region all match;
\* only the first contributes.
C17_Witness ==
    /\ Scored
    /\ {1, 2, 8} \subseteq GeoHits
    /\ applied_rules[5].pts = -20
    /\ GeoReasonsGiven = {"NJ too far (>30 mi) - excluded"}

\* Nothing matches: the penalty applies without 'remote' or 'hybrid'.
C17_WitnessOutside ==
    /\ Scored
    /\ GeoHits = {}
    /\ HasReason(OutsideReason)

\* Nothing matches and the location is remote: no penalty.
C17_WitnessRemote ==
    /\ Scored
    /\ GeoHits = {}
    /\ Contains(TheLocation, "remote")
    /\ applied_rules[5] = NoRule

\* C18 (the claim as stated): the remote bonus and the hybrid bonus both
\* apply to a location that contains both words.
C18_RemoteAndHybrid ==
    (Scored /\ Contains(TheLocation, "remote") /\ Contains(TheLocation, "hybrid")) =>
        /\ applied_rules[4].pts = 20 + 15
        /\ HasReason("Remote - work from home")
        /\ HasReason("Hybrid option")

\* C18 (amended): the remote bonus and the hybrid bonus exclude each other:
\* a location containing 'remote' gets the remote bonus only, also when it
\* contains 'hybrid'; a location containing 'hybrid' and not 'remote' gets the
\* hybrid bonus.  Whichever applies is added to the geography outcome.
C18_RemoteBeforeHybrid ==
    Scored =>
        /\ IF Contains(TheLocation, "remote")
           THEN /\ applied_rules[4].pts = 20
                /\ HasReason("Remote - work from home")
                /\ ~HasReason("Hybrid option")
           ELSE IF Contains(TheLocation, "hybrid")
           THEN /\ applied_rules[4].pts = 15
                /\ HasReason("Hybrid option")
                /\ ~HasReason("Remote - work from home")
           ELSE /\ applied_rules[4].pts = 0
                /\ ~HasReason("Hybrid option")
                /\ ~HasReason("Remote - work from home")
        /\ scored_jobs[1].score2 =
                2 * SumPts(applied_rules)
                + (IF scored_jobs[1].fit_score = None THEN 0
                   ELSE scored_jobs[1].fit_score[1].overall_score)

\* The location contains both words and a close town: the remote bonus
\* and the geography bonus apply, the hybrid bonus does not.
C18_Witness ==
    /\ Scored
    /\ Contains(TheLocation, "remote")
    /\ Contains(TheLocation, "hybrid")
    /\ applied_rules[4].pts = 20
    /\ applied_rules[5].pts = 25
    /\ HasReason("NJ close (5-15 mi)")

\* C19 (the claim as stated): every rule that changes the score appends a
\* reason, and the reasons of the posting are the reasons of the rules in
\* rule order, none removed.
C19_EveryRuleGivesReason ==
    Scored =>
        /\ \A i \in 1..Len(applied_rules) :
                applied_rules[i].pts # 0 => applied_rules[i].reasons # <<>>
        /\ \E cut \in 0..Len(TheReasons) :
                SubSeq(TheReasons, 1, cut) = ReasonsOf(applied_rules)

\* The postings of the input that can be scored, in input order.
WellFormed == SelectSeq(new_jobs, LAMBDA j : ~Raises(j))

\* C20 (the claim as stated): an error raised while scoring one posting
\* makes the ranking skip that posting only; the call still returns the
\* ranking of the other postings.
C20_SkipsMalformed ==
    rpc # "input" =>
        /\ rpc = "ranked"
        /\ ranked = rank_jobs_with_scores(WellFormed, max_results, the_resume, the_current_job)

(***************************************************************************)
(* Properties of the runs.                                                 *)
(***************************************************************************)
\* C1: across non-overlapping scheduled runs, a posting whose id is in the
\* store when the run filters is not handed to the notifier by that run,
\* and no id is handed over more than once while cleanup has not deleted
\* its row.
C1_SentAtMostOnce ==
    /\ handed["scheduled"] \cap seenAtFilter["scheduled"] = {}
    /\ \A id \in JobIds : sentLive[id] <= 1

\* A later scheduled run has scraped a posting that an earlier run sent and
\* whose row is still in the store, together with a new one, and has sent
\* only the new one.
C1_Witness ==
    /\ pc["scheduled"] = "mark_top"
    /\ runs >= 2
    /\ handed["scheduled"] = {J4.id}
    /\ J1.id \in IdsOf(run_all_jobs["scheduled"])
    /\ J1.id \in seenAtFilter["scheduled"]
    /\ sentLive[J1.id] = 1
    /\ RowsOf(store, J1.id) # {}

\* A posting is sent again by a scheduled run after cleanup deleted its row.
C1_WitnessAfterCleanup ==
    /\ pc["scheduled"] = "mark_top"
    /\ runs = 3
    /\ handed["scheduled"] = {J1.id}
    /\ sentLive[J1.id] = 1
    /\ RowsOf(store, J1.id) = {}
    /\ clock > 0

MarkedBy(p) ==
    IF pc[p] = "mark_top" /\ pc'[p] = "mark_all" THEN IdsOf(run_top_jobs[p])
    ELSE IF pc[p] = "mark_all" /\ pc'[p] # "mark_all" THEN IdsOf(run_all_jobs[p])
    ELSE {}

\* C5: under any interleaving of a scheduled and an interactive run the
\* store holds at most one row per job id, every row is the row one single
\* upsert wrote, and an upsert leaves the rows of other ids as they were.
C5_NoTornRecords ==
    [][/\ \A id \in JobIds :
            /\ Cardinality(RowsOf(store', id)) <= 1
            /\ RowsOf(store', id) \subseteq lastWrite'[id]
       /\ \A p \in Procs :
            MarkedBy(p) # {} =>
                \A id \in JobIds \ MarkedBy(p) : RowsOf(store', id) = RowsOf(store, id)]_vars

\* The tolerated anomaly: both runs got the same posting from filter_new_jobs
\* and both sent it; one run has written its row, the other has not yet
\* overwritten it.
C5_Witness ==
    /\ sentLive[J1.id] = 2
    /\ J1.id \in handed["scheduled"] \cap handed["interactive"]
    /\ pc["scheduled"] = "mark_all"
    /\ pc["interactive"] = "mark_top"
    /\ \E r \in store : r.job_id = J1.id /\ r.title = J1.title /\ r.notified
    /\ run_top_jobs["interactive"] = <<J1b>>
    /\ J2.id \in IdsOf(run_all_jobs["scheduled"])


(***************************************************************************)
(* Properties of the fit score.                                            *)
(***************************************************************************)
FitDone == rpc = "fitted"

TheFit == fit_result[1]

ThePosting == new_jobs[1]

\* C11: for any resume (none included), any current job and any posting,
\* the four numbers of the fit score lie in 0..100.
C11_FitBounds ==
    FitDone =>
        /\ TheFit.skill_match \in 0..100
        /\ TheFit.title_match \in 0..100
        /\ TheFit.experience_match \in 0..100
        /\ TheFit.overall_score \in 0..100

\* The experience requirement is met and a certification is named, so the
\* boost of 15 meets the cap; and the skills and the title are strong, so
\* the bonus of 10 meets the cap.
C11_Witness ==
    /\ FitDone
    /\ the_resume # None
    /\ TheFit.experience_match = 100
    /\ \E i \in 1..Len(TheFit.reasons) : TheFit.reasons[i] = "Certification match"
    /\ \E i \in 1..Len(TheFit.reasons) : TheFit.reasons[i] = "Experience: 5+ yrs (need 2)"

C11_WitnessNoResume ==
    /\ FitDone
    /\ the_resume = None
    /\ TheFit.overall_score = 50

\* round(x) for x = n / 100, halves rounded up
RoundHundredths(n) == (n + 50) \div 100

\* C12 (the claim as stated): the overall score is
\* round(skill * 0.35 + title * 0.40 + experience * 0.25), plus 10 capped at
\* 100 exactly when skill and title are both at least 80.
C12_OverallRounded ==
    (FitDone /\ the_resume # None) =>
        LET rounded == RoundHundredths(TheFit.skill_match * 35 + TheFit.title_match * 40
                                          + TheFit.experience_match * 25)
        IN  TheFit.overall_score =
                IF TheFit.skill_match >= 80 /\ TheFit.title_match >= 80
                THEN Min(100, rounded + 10)
                ELSE rounded

\* The weighted sum of the three sub-scores, in hundredths.
WeightedHundredths ==
    TheFit.skill_match * 35 + TheFit.title_match * 40 + TheFit.experience_match * 25

\* C12 (amended): the overall score is the weighted sum
\* skill * 0.35 + title * 0.40 + experience * 0.25 truncated to an integer,
\* plus 10 capped at 100 exactly when skill and title are both at least 80.
C12_OverallTruncated ==
    (FitDone /\ the_resume # None) =>
        LET truncated == CHOOSE n \in 0..100 :
                            n * 100 <= WeightedHundredths /\ WeightedHundredths < (n + 1) * 100
        IN  TheFit.overall_score =
                IF TheFit.skill_match >= 80 /\ TheFit.title_match >= 80
                THEN Min(100, truncated + 10)
                ELSE truncated

\* The fraction of the weighted sum is at least one half and is dropped.
C12_Witness ==
    /\ FitDone
    /\ the_resume # None
    /\ WeightedHundredths % 100 >= 50
    /\ TheFit.overall_score * 100 < WeightedHundredths
    /\ ~(TheFit.skill_match >= 80 /\ TheFit.title_match >= 80)

\* The bonus of 10 applies and meets the cap.
C12_WitnessBonus ==
    /\ FitDone
    /\ TheFit.skill_match >= 80
    /\ TheFit.title_match >= 80
    /\ TheFit.overall_score = 100
    /\ WeightedHundredths < 10000

MaxOf(S) == CHOOSE x \in S : \A y \in S : y <= x

\* The floors that apply to the title match of the posting.
TitleFloors ==
    LET title_lower == lower(ThePosting.title)
        resume == the_resume[1]
        has_current == the_current_job # None /\ the_current_job[1].title # ""
        same == /\ has_current
                /\ \E k \in 1..Len(common_terms) :
                        /\ Contains(lower(the_current_job[1].title), common_terms[k])
                        /\ Contains(title_lower, common_terms[k])
        progression == \E k \in 1..Len(progression_keywords) :
                            Contains(title_lower, progression_keywords[k])
    IN  {40}
        \cup (IF \E i \in 1..Len(resume.job_titles) :
                    Contains(title_lower, lower(resume.job_titles[i]))
              THEN {90} ELSE {})
        \cup (IF same THEN {70} ELSE {})
        \cup (IF same /\ progression THEN {95} ELSE {})
        \cup (IF \E k \in 1..Len(title_keywords) : Contains(title_lower, title_keywords[k])
              THEN {75} ELSE {})

\* C13: with a resume loaded the title match is the greatest of the floors
\* that apply (40 as the base, 90, 70, 95, 75), so one of 40, 70, 75, 90, 95.
C13_TitleMatchIsMaxFloor ==
    (FitDone /\ the_resume # None) =>
        /\ TheFit.title_match = MaxOf(TitleFloors)
        /\ TheFit.title_match \in {40, 70, 75, 90, 95}

\* A resume title gives 90 and a title keyword, which comes later, gives
\* 75: the title match stays 90.
C13_Witness ==
    /\ FitDone
    /\ the_resume # None
    /\ the_current_job = None
    /\ TitleFloors = {40, 75, 90}
    /\ TheFit.title_match = 90

ScenarioCDescription ==
    Some("Looking for 3+ years experience in desktop support, Active Directory, Office 365")

\* C14 (the claim as stated): for every resume with the job title
\* "IT Support Specialist" and 5 years of experience, the posting
\* "IT Support Specialist II" requiring 3+ years experience gets title
\* match 90, experience match 100 and an overall score of at least 75.
C14_ScenarioC ==
    (/\ FitDone
     /\ the_resume # None
     /\ ThePosting.title = "IT Support Specialist II"
     /\ ThePosting.description_snippet = ScenarioCDescription)
    => ((/\ the_resume[1].experience_years = 5
         /\ \E i \in 1..Len(the_resume[1].job_titles) :
                lower(the_resume[1].job_titles[i]) = "it support specialist")
        => /\ TheFit.title_match = 90
           /\ TheFit.experience_match = 100
           /\ TheFit.overall_score >= 75)

(***************************************************************************)
(* Scheduled runs over a channel that may drop alerts and a store whose    *)
(* cleanup may fail.                                                       *)
(***************************************************************************)
\* db.cleanup_old_jobs(days=30) raises (sqlite3.Error: the DELETE is not
\* committed).  The handler of run_job_scout prints the error, sends
\* send_error_message(str(e)) and re-raises it to the caller.
RunCleanupFails ==
    /\ pc["scheduled"] = "cleanup"
    /\ reported' = TRUE
    /\ raised' = TRUE
    /\ pc' = [pc EXCEPT !["scheduled"] = "idle"]
    /\ UNCHANGED <<storeVars, harnessVars, resumeVars, rankVars,
                   run_all_jobs, run_new_jobs, run_top_jobs, runs, seenAtFilter, handed,
                   sentLive, scoreVars, botVars, repoVars, sent, notifiedAtScrape, pausedAtScrape>>

DeliveryNext ==
    \/ \E jobs \in JobLists(RunJobs, MaxScrape) : Scrape("scheduled", jobs, MaxRuns)
    \/ Filter("scheduled")
    \/ Send("scheduled")
    \/ SendUndelivered("scheduled")
    \/ MarkTop("scheduled")
    \/ MarkAll("scheduled")
    \/ RunCleanup
    \/ RunCleanupFails
    \/ \E d \in LongTick : Elapse(d)

DeliveryInit == RunInit /\ tz = 0

SpecDelivery == DeliveryInit /\ [][DeliveryNext]_vars

\* Every posting the scheduled run scraped has its row.
ScrapedRowsStand ==
    \A id \in IdsOf(run_all_jobs["scheduled"]) : RowsOf(store, id) # {}

\* C21: a failure of the retention cleanup at the end of a run does not
\* abort the run: the failure is reported, the rows the run wrote stand and
\* no error reaches the caller of run_job_scout.
C21_CleanupFailureContained ==
    reported => (ScrapedRowsStand /\ ~raised)

\* C22: every posting of the ranked batch handed to the channel is written
\* with notified = true by the mark that follows, whatever count the channel
\* returned.
C22_MarkFollowsAttempt ==
    [][(pc["scheduled"] = "mark_top" /\ pc'["scheduled"] = "mark_all")
        => \A id \in handed["scheduled"] :
              \E r \in RowsOf(store', id) : r.notified]_vars

\* C22 witness: a batch of two was handed over, none was delivered, and both
\* postings have their notified row.
C22_Witness ==
    /\ pc["scheduled"] = "mark_all"
    /\ Cardinality(handed["scheduled"]) = 2
    /\ sent["scheduled"] = 0
    /\ \A id \in handed["scheduled"] : \E r \in RowsOf(store, id) : r.notified

(***************************************************************************)
(* The resume repository: resume_manager.ResumeManager.  the_resume and    *)
(* the_current_job are self.resume and self.current_job, saved_resume and  *)
(* saved_current_job the contents of resume_data.json and                  *)
(* current_job.json.                                                       *)
(***************************************************************************)
ResumeTexts ==
    {"IT Support Specialist with 5+ years of experience",
     "3 years experience on the help desk. 10 years of experience in all",
     "Experience: 7 years. 2 years in IT",
     "1 year experience; experience: 6 years; 8 years in tech",
     "2 years experience and 9 years in support",
     "experience 12+ years",
     "4 years in support, then 11 years in IT",
     "Help desk technician"}

\* A file on disk: whether the path exists, its suffix, and the text it
\* holds (for a PDF, the text its pages extract to).
ResumeFile(path_exists, suffix, text) ==
    [path_exists |-> path_exists, suffix |-> suffix, text |-> text]

ResumeFiles ==
    {ResumeFile(FALSE, ".txt", ""), ResumeFile(FALSE, ".pdf", "")}
      \cup {ResumeFile(TRUE, ".txt", text) : text \in ResumeTexts}
      \cup {ResumeFile(TRUE, suffix, "Experience: 7 years. 2 years in IT") :
                suffix \in {".pdf", ".PDF", ".docx"}}

\* The PDF library the interpreter can import.
Extractors == {"PyPDF2", "pdfplumber", "none"}

UploadOf(file, extractor, outcome) ==
    [path_exists |-> file.path_exists, suffix |-> file.suffix, text |-> file.text,
     extractor |-> extractor, outcome |-> outcome]

ExperienceYearsTable == [text \in ResumeTexts |-> experience_years(lower(text))]

\* _parse_resume(text): the fields of the Resume that the uploads below are
\* read for; skills, job_titles, education, certifications and keywords are
\* functions of raw_text.
parse_resume(text, now) ==
    [raw_text |-> text, experience_years |-> ExperienceYearsTable[text],
     last_updated |-> now]

\* _save_data(): each of the two files is written iff its object is set.
SaveData ==
    /\ saved_resume' = (IF the_resume' # None THEN the_resume' ELSE saved_resume)
    /\ saved_current_job' =
          (IF the_current_job' # None THEN the_current_job' ELSE saved_current_job)

\* The upload ends with an exception and clears the resume in memory.
update_resume_from_file_clearing(file, extractor) ==
    /\ IF ~file.path_exists
       THEN /\ upload' = UploadOf(file, extractor, "FileNotFoundError")
            /\ the_resume' = None
            /\ UNCHANGED <<the_current_job, saved_resume, saved_current_job>>
       ELSE IF lower(file.suffix) = ".pdf" /\ extractor = "none"
       THEN /\ upload' = UploadOf(file, extractor, "ImportError")
            /\ the_resume' = None
            /\ UNCHANGED <<the_current_job, saved_resume, saved_current_job>>
       ELSE /\ upload' = UploadOf(file, extractor, "ok")
            /\ the_resume' = Some(parse_resume(file.text, clock))
            /\ UNCHANGED the_current_job
            /\ SaveData
    /\ UNCHANGED <<storeVars, harnessVars, rankVars, runVars, scoreVars, botVars>>

\* update_resume_from_file(file_path), with update_resume and _save_data.
update_resume_from_file(file, extractor) ==
    /\ IF ~file.path_exists
       THEN /\ upload' = UploadOf(file, extractor, "FileNotFoundError")
            /\ UNCHANGED <<resumeVars, saved_resume, saved_current_job>>
       ELSE IF lower(file.suffix) = ".pdf" /\ extractor = "none"
       THEN /\ upload' = UploadOf(file, extractor, "ImportError")
            /\ UNCHANGED <<resumeVars, saved_resume, saved_current_job>>
       ELSE /\ upload' = UploadOf(file, extractor, "ok")
            /\ the_resume' = Some(parse_resume(file.text, clock))
            /\ UNCHANGED the_current_job
            /\ SaveData
    /\ UNCHANGED <<storeVars, harnessVars, rankVars, runVars, scoreVars, botVars>>

CurrentTitles == {"IT Support Specialist", "Help Desk Technician"}

\* update_current_job(title), with _save_data.
update_current_job(title) ==
    /\ the_current_job' = Some(CurrentJob(title))
    /\ UNCHANGED the_resume
    /\ SaveData
    /\ upload' = NoUpload
    /\ UNCHANGED <<storeVars, harnessVars, rankVars, runVars, scoreVars, botVars>>

RepoNext ==
    \/ \E file \in ResumeFiles, extractor \in Extractors :
            update_resume_from_file(file, extractor)
    \/ \E title \in CurrentTitles : update_current_job(title)
    \/ \E d \in ShortTick : Tick(d)

RepoInit == RunInit /\ tz = 0

SpecRepo == RepoInit /\ [][RepoNext]_vars

Failures == {"FileNotFoundError", "ImportError"}

C23_WitnessNotFound ==
    /\ upload.outcome = "FileNotFoundError"
    /\ the_resume # None /\ saved_resume = the_resume

\* Every integer that some match of some year pattern captures.
YearsAt(text, i) ==
    {YearsExperienceAt(text, i), ExperienceYearsAt(text, i), YearsInFieldAt(text, i)}
        \ {None}

AllYears(text) ==
    {ParseInt(m[1]) : m \in UNION {YearsAt(text, i) : i \in 1..Len(text)}}

AllYearsTable ==
    [text \in ResumeTexts |->
        IF AllYears(lower(text)) = {} THEN 0 ELSE MaxOf(AllYears(lower(text)))]

\* C24: the experience years of a parsed resume are the largest integer
\* over all matches of all year patterns in the text, 0 without a match.
C24_MaxOverAllMatches ==
    upload.outcome = "ok" => the_resume[1].experience_years = AllYearsTable[upload.text]

(***************************************************************************)
(* The listener: bot_listener.TelegramBotListener.  run() awaits each      *)
(* handle_command before it reads the next update, so the listener handles *)
(* one command at a time; agent.run_job_scout runs in a process of its     *)
(* own and shares only the store with it.                                  *)
(***************************************************************************)
chat_id == 843945987

Chats == {chat_id, chat_id + 1}

\* The texts of the updates: run() passes on every text that starts
\* with "/".
Commands ==
    {"/help", "/status", "/Search ", "/more", "/more 1", "/stop", "/resume",
     "/quick", "/jobs"}

ListenerJobs == {J1, J2}

\* What a scrape of the listener's runs may return.
ListenerScrapes == JobLists(ListenerJobs, MaxScrape)

\* str.strip() and str.split()
RECURSIVE lstrip(_)
lstrip(s) == IF IsSpace(s, 1) THEN lstrip(SubSeq(s, 2, Len(s))) ELSE s

RECURSIVE rstrip(_)
rstrip(s) == IF IsSpace(s, Len(s)) THEN rstrip(SubSeq(s, 1, Len(s) - 1)) ELSE s

strip(s) == rstrip(lstrip(s))

RECURSIVE WordEnd(_, _)
WordEnd(s, i) == IF i <= Len(s) /\ ~IsSpace(s, i) THEN WordEnd(s, i + 1) ELSE i

RECURSIVE split(_)
split(s) ==
    IF lstrip(s) = "" THEN <<>>
    ELSE <<SubSeq(lstrip(s), 1, WordEnd(lstrip(s), 1) - 1)>>
            \o split(SubSeq(lstrip(s), WordEnd(lstrip(s), 1), Len(lstrip(s))))

\* int(parts[1]) succeeds; the commands hold no signed numbers.
IsInt(s) == Len(s) > 0 /\ \A i \in 1..Len(s) : IsDigit(s, i)

\* count of "/more" and "/more 15": 10, or the number limited to 1..25
more_count(parts) ==
    IF Len(parts) > 1 /\ IsInt(parts[2])
    THEN Min(Max(ParseInt(parts[2]), 1), 25)
    ELSE 10

\* The if/elif chain of handle_command over command.lower().strip()
Handler(command) ==
    IF command \in {"/start", "/help"} THEN "cmd_help"
    ELSE IF command = "/status" THEN "cmd_status"
    ELSE IF command = "/search" THEN "cmd_search"
    ELSE IF StartsAt(command, 1, "/more") THEN "cmd_more"
    ELSE IF command \in {"/stop", "/pause"} THEN "cmd_stop"
    ELSE IF command \in {"/resume", "/start_alerts"} THEN "cmd_resume"
    ELSE IF command = "/quick" THEN "cmd_quick"
    ELSE "unknown"

Dispatch(command) ==
    [handler |-> Handler(command),
     count |-> IF Handler(command) = "cmd_more" THEN more_count(split(command)) ELSE 0]

CommandTable == [text \in Commands |-> Dispatch(strip(lower(text)))]

\* Every chat is answered.
AcceptsAny(chat) == TRUE

\* if chat_id != self.chat_id: return
Accepts(chat) == chat = chat_id

\* handle_command is entered with the update's chat.
Received ==
    /\ pc["interactive"] = "idle"
    /\ handled < MaxCommands
    /\ handled' = handled + 1

\* The command of an accepted chat is normalised and dispatched.
Handles(chat, text, handler) ==
    /\ Received
    /\ Accepts(chat)
    /\ CommandTable[text].handler = handler
    /\ cmd' = Some([chat |-> chat, handler |-> handler, count |-> CommandTable[text].count])

NoRun ==
    UNCHANGED <<storeVars, harnessVars, resumeVars, rankVars, runVars, scoreVars, repoVars>>

\* A command of a chat that is not the configured one.
Ignore(chat, text) ==
    /\ Received
    /\ ~Accepts(chat)
    /\ cmd' = Some([chat |-> chat, handler |-> "return", count |-> 0])
    /\ reply' = <<>>
    /\ UNCHANGED is_paused
    /\ NoRun

cmd_help(chat, text) ==
    /\ Handles(chat, text, "cmd_help")
    /\ reply' = <<"Job Scout Bot Commands">>
    /\ UNCHANGED is_paused
    /\ NoRun

\* cmd_status reads get_stats() and is_paused.
cmd_status(chat, text) ==
    /\ Handles(chat, text, "cmd_status")
    /\ reply' = <<IF is_paused THEN "Bot Status: Paused" ELSE "Bot Status: Active">>
    /\ UNCHANGED is_paused
    /\ NoRun

unknown_command(chat, text) ==
    /\ Handles(chat, text, "unknown")
    /\ reply' = <<"Unknown command">>
    /\ UNCHANGED is_paused
    /\ NoRun

cmd_stop(chat, text) ==
    /\ Handles(chat, text, "cmd_stop")
    /\ is_paused' = TRUE
    /\ reply' = <<"Alerts Paused. You can still use /search and /more manually.">>
    /\ NoRun

cmd_resume(chat, text) ==
    /\ Handles(chat, text, "cmd_resume")
    /\ is_paused' = FALSE
    /\ reply' = <<"Alerts Resumed">>
    /\ NoRun

\* cmd_quick scrapes, ranks five and sends their titles in one message; it
\* neither reads nor writes the store.
cmd_quick(chat, text) ==
    /\ Handles(chat, text, "cmd_quick")
    /\ reply' = <<"Quick search...">>
    /\ UNCHANGED is_paused
    /\ NoRun

PausedReply == <<"Bot is paused. Use /resume to enable alerts first.">>

\* cmd_search: a paused listener answers and returns; otherwise the search
\* is announced and the job boards are scraped.
cmd_search(chat, text, jobs) ==
    /\ Handles(chat, text, "cmd_search")
    /\ UNCHANGED is_paused
    /\ IF is_paused
       THEN /\ reply' = PausedReply
            /\ NoRun
       ELSE /\ reply' = <<"Starting job search...">>
            /\ StartRun("interactive", jobs, MaxListenerRuns + MaxCommands, "filter")

\* cmd_more(count): as cmd_search, but the scrape is ranked as it is.
cmd_more(chat, text, jobs) ==
    /\ Handles(chat, text, "cmd_more")
    /\ UNCHANGED is_paused
    /\ IF is_paused
       THEN /\ reply' = PausedReply
            /\ NoRun
       ELSE /\ reply' = <<"Fetching more jobs...">>
            /\ StartRun("interactive", jobs, MaxListenerRuns + MaxCommands, "more_send")

\* cmd_more: top_jobs = rank_jobs(all_jobs, max_results=count); the batch
\* is sent and marked only if top_jobs is not empty.
MoreSend ==
    /\ pc["interactive"] = "more_send"
    /\ run_top_jobs' = [run_top_jobs EXCEPT !["interactive"] =
            rank_jobs(run_all_jobs["interactive"], cmd[1].count, the_resume, the_current_job)]
    /\ handed' = [handed EXCEPT !["interactive"] = IdsOf(run_top_jobs'["interactive"])]
    /\ sentLive' = [id \in JobIds |->
            IF id \in IdsOf(run_top_jobs'["interactive"]) THEN sentLive[id] + 1
            ELSE sentLive[id]]
    /\ sent' = [sent EXCEPT !["interactive"] = Len(run_top_jobs'["interactive"])]
    /\ pc' = [pc EXCEPT !["interactive"] =
            IF run_top_jobs'["interactive"] # <<>> THEN "mark_top" ELSE "mark_all"]
    /\ UNCHANGED <<storeVars, harnessVars, resumeVars, rankVars,
                   run_all_jobs, run_new_jobs, runs, seenAtFilter, scoreVars, botVars, repoVars,
                   raised, reported, notifiedAtScrape, pausedAtScrape>>

handle_command(chat, text) ==
    \/ Ignore(chat, text)
    \/ cmd_help(chat, text)
    \/ cmd_status(chat, text)
    \/ \E jobs \in ListenerScrapes : cmd_search(chat, text, jobs)
    \/ \E jobs \in ListenerScrapes : cmd_more(chat, text, jobs)
    \/ cmd_stop(chat, text)
    \/ cmd_resume(chat, text)
    \/ cmd_quick(chat, text)
    \/ unknown_command(chat, text)

ListenerNext ==
    \/ \E chat \in Chats, text \in Commands : handle_command(chat, text)
    \/ MoreSend
    \/ \E jobs \in ListenerScrapes : Scrape("scheduled", jobs, MaxListenerRuns)
    \/ \E p \in Procs : Filter(p)
    \/ \E p \in Procs : Send(p)
    \/ \E p \in Procs : MarkTop(p)
    \/ \E p \in Procs : MarkAll(p)
    \/ RunCleanup

ListenerInit == RunInit /\ tz = 0 /\ the_resume = None

SpecListener == ListenerInit /\ [][ListenerNext]_vars

\* A step that is one call of handle_command.
CommandStep == handled' = handled + 1

\* C25: a command whose chat is not the configured chat gets no message,
\* starts no scrape or ranking, and leaves is_paused and the store as they
\* were.
C25_ForeignChatIgnored ==
    [][(CommandStep /\ cmd'[1].chat # chat_id)
        => (/\ reply' = <<>>
            /\ UNCHANGED <<store, is_paused, pc, runs, run_all_jobs, run_top_jobs,
                           handed, sentLive>>)]_vars

\* C25 witness: the listener was paused by its own chat, and a command of
\* another chat was received after that.
C25_Witness ==
    /\ cmd # None
    /\ cmd[1].chat # chat_id
    /\ handled = 2
    /\ is_paused
    /\ reply = <<>>

\* C26: on a paused listener /search and /more are not refused: the job
\* boards are scraped for them.
C26_ManualSearchWhilePaused ==
    [][(CommandStep /\ is_paused /\ cmd'[1].chat = chat_id
            /\ cmd'[1].handler \in {"cmd_search", "cmd_more"})
        => (reply' # PausedReply /\ runs' = runs + 1)]_vars

\* C27: a scheduled run that began while the listener was paused hands no
\* batch to the channel while the listener is still paused.
C27_NoScheduledBatchWhilePaused ==
    [][(pc["scheduled"] = "send" /\ pc'["scheduled"] = "mark_top"
            /\ pausedAtScrape /\ is_paused)
        => handed'["scheduled"] = {}]_vars

(***************************************************************************)
(* Runs of both kinds, run_job_scout and cmd_search, taken one at a time.  *)
(***************************************************************************)
AllIdle == \A p \in Procs : pc[p] = "idle"

SequentialNext ==
    \/ \E p \in Procs, jobs \in JobLists(OverlapJobs, MaxScrape) :
            AllIdle /\ Scrape(p, jobs, MaxOverlapRuns)
    \/ \E p \in Procs : Filter(p)
    \/ \E p \in Procs : Send(p)
    \/ \E p \in Procs : MarkTop(p)
    \/ \E p \in Procs : MarkAll(p)
    \/ RunCleanup
    \/ \E d \in LongTick : Elapse(d)

SpecSequential == OverlapInit /\ [][SequentialNext]_vars

\* The run of p had scraped postings and this step is its last.
Completes(p) == pc[p] # "idle" /\ pc'[p] = "idle" /\ run_all_jobs[p] # <<>>

C28_WitnessSearch ==
    /\ pc["interactive"] = "idle"
    /\ handed["interactive"] # {}
    /\ \A id \in handed["interactive"] : \E r \in RowsOf(store, id) : ~r.notified

(***************************************************************************)
(* Records that are marked again before they are a month old.              *)
(***************************************************************************)
\* Gaps between calls: two days, 29 days and 20 hours.
RemarkHours == {48, 29 * 24 + 20}

RemarkNext ==
    \/ \E jobs \in JobLists(StoreJobs, MaxBatch), notified \in BOOLEAN :
            MarkSeen(jobs, notified)
    \/ Cleanup
    \/ \E d \in RemarkHours : Tick(d)

SpecRemark == StoreInit /\ [][RemarkNext]_vars

\* C29: markSeen gives every id it writes a row whose firstSeen is the time
\* of the call, and cleanup never deletes a row that was marked within the
\* last retentionDays days.
C29_RemarkedNeverDeleted ==
    [][/\ (op' = "mark" /\ ticks' = ticks)
            => \A id \in IdsOf(batch') : \A r \in RowsOf(store', id) : r.first_seen = clock
       /\ (op' = "cleanup" /\ ticks' = ticks)
            => \A r \in store :
                    clock - r.first_seen <= RetentionDays * 24 => r \in store'
      ]_vars

\* The first half of C29 alone: an upsert of an existing id resets its
\* firstSeen to the time of the call.
C29_RemarkResetsFirstSeen ==
    [][(op' = "mark" /\ ticks' = ticks)
        => \A id \in IdsOf(batch') : \A r \in RowsOf(store', id) : r.first_seen = clock]_vars

(***************************************************************************)
(* Scheduled runs over a scrape that holds more good postings than one run *)
(* sends.                                                                  *)
(***************************************************************************)
FullScrape == <<B13>> \o [i \in 1..Len(BulkNumbers) |-> Bulk(BulkNumbers[i])] \o <<J2>>

\* What the job boards return: the full scrape, and later scrapes that
\* hold the thirteenth posting again.
BacklogScrapes == {FullScrape, <<B13, J4>>, <<J2, B13>>, <<J4>>}

BacklogNext ==
    \/ \E jobs \in BacklogScrapes : Scrape("scheduled", jobs, MaxRuns)
    \/ Filter("scheduled")
    \/ Send("scheduled")
    \/ MarkTop("scheduled")
    \/ MarkAll("scheduled")
    \/ RunCleanup
    \/ \E d \in LongTick \cup ShortTick : Elapse(d)

BacklogInit == RunInit /\ tz = 0 /\ the_resume = None

SpecBacklog == BacklogInit /\ [][BacklogNext]_vars

\* The new postings of the scheduled run that it did not hand to the channel.
PassedOver == IdsOf(run_new_jobs["scheduled"]) \ handed["scheduled"]

\* C30: a scheduled run records as seen every new posting it does not
\* send, whether ranked below the limit or scored at most 0, and a posting
\* that has a record and was never sent is not sent by a scheduled run as
\* long as the record remains.
C30_PassedOverNeverSent ==
    [][/\ (pc["scheduled"] = "mark_all" /\ pc'["scheduled"] = "cleanup")
            => \A id \in PassedOver :
                    /\ RowsOf(store', id) # {}
                    /\ \A r \in RowsOf(store', id) : ~r.notified
       /\ \A id \in JobIds :
            (RowsOf(store, id) # {} /\ sentLive[id] = 0 /\ RowsOf(store', id) # {})
                => sentLive'[id] = 0
      ]_vars

\* C30 witness: the thirteenth posting has a positive score, was ranked
\* below the limit in the first run and recorded, and a later run that
\* scraped it again has sent another posting and not this one.
C30_Witness ==
    /\ pc["scheduled"] = "mark_top"
    /\ runs >= 2
    /\ ScoreTable[B13, None, None].score2 > 0
    /\ B13.id \in IdsOf(run_all_jobs["scheduled"])
    /\ handed["scheduled"] = {J4.id}
    /\ sentLive[B13.id] = 0
    /\ \A i \in 1..Len(BulkNumbers) :
            \E r \in RowsOf(store, Bulk(BulkNumbers[i]).id) : ~r.notified
    /\ \E r \in RowsOf(store, B13.id) : ~r.notified

\* C30 witness: the first run has handed twelve of thirteen good postings
\* to the channel.
C30_WitnessCut ==
    /\ pc["scheduled"] = "mark_top"
    /\ Len(run_new_jobs["scheduled"]) = get_daily_job_limit + 2
    /\ Cardinality(handed["scheduled"]) = get_daily_job_limit
    /\ B13.id \notin handed["scheduled"]
    /\ ScoreTable[B13, None, None].score2 > 0

====
